---- MODULE Spec2Model ----
(***************************************************************************)
(* RAF Bomber Command research database: the multi-agent research pipeline *)
(* of ai_system/complete_ai_research_system.py.                            *)
(*                                                                         *)
(* A research request is selected, given database context, dispatched to   *)
(* the selected specialists one after the other, synthesized and returned. *)
(* Text is a sequence of string pieces; a query is a sequence of           *)
(* one-character strings, so that lower-casing and substring matching are  *)
(* computed character by character.  Confidences are exact rationals       *)
(* counted in units of 1/60000 (thousandths times 60), so that the mean of *)
(* up to five of them is an integer number of units; wall-clock fields     *)
(* (processing_time, total_processing_time, timestamp) are left out.       *)
(***************************************************************************)
EXTENDS Integers, Sequences, FiniteSets, TLC

VARIABLES
    client_configured,  \* SpecialistAgent.client is not None (openai.api_key set)
    pc,                 \* position of the request being handled
    query,              \* ResearchQuery.query, a sequence of characters
    agents_to_use,      \* research(): the selected role keys
    db_context,         \* research(): the database context text
    next_agent,         \* research(): index of the loop over agents_to_use
    agent_responses,    \* research(): the AgentResponse list
    calls,              \* log of the chat.completions.create calls attempted
    result,             \* the ResearchResult
    http,               \* the endpoint's answer: status and payload
    personnel_table,    \* the rows of the personnel table, in rowid order
    aircraft_table,     \* the rows of the aircraft table, in rowid order
    v2_personnel_table, \* the rows of the personnel table of src/app_v2_fixed.py
    store_failed,       \* the store failed during the last context query or search
    search,             \* the last search call and what it returned
    adv_personnel_table,\* the rows of the personnel table of src/app_advanced_filters.py
    squadrons_table,    \* the rows of the squadrons table of src/app_advanced_filters.py
    request_counts,     \* rate_limit: client address -> list of request times
    now,                \* what time.time() returns, in seconds
    admitted,           \* client address -> times of the requests rate_limit let through
    threads,            \* the requests inside rate_limit: position, client, local values
    rate                \* the last answer of rate_limit

vars == <<client_configured, pc, query, agents_to_use, db_context, next_agent,
          agent_responses, calls, result, http,
          personnel_table, aircraft_table, v2_personnel_table, store_failed, search,
          adv_personnel_table, squadrons_table,
          request_counts, now, admitted, threads, rate>>

-----------------------------------------------------------------------------
(* Bounds of the model *)

\* A query is the concatenation of at most MaxChunks chunks.
MaxChunks == 2

\* The synthesizer, checked on its own, receives at most MaxSynthLen responses.
MaxSynthLen == 2

-----------------------------------------------------------------------------
(* Characters and text *)

LowerMap ==
    "A" :> "a" @@ "B" :> "b" @@ "C" :> "c" @@ "D" :> "d" @@ "E" :> "e" @@ "F" :> "f" @@ "G" :> "g" @@
    "H" :> "h" @@ "I" :> "i" @@ "J" :> "j" @@ "K" :> "k" @@ "L" :> "l" @@ "M" :> "m" @@ "N" :> "n" @@
    "O" :> "o" @@ "P" :> "p" @@ "Q" :> "q" @@ "R" :> "r" @@ "S" :> "s" @@ "T" :> "t" @@ "U" :> "u" @@
    "V" :> "v" @@ "W" :> "w" @@ "X" :> "x" @@ "Y" :> "y" @@ "Z" :> "z"

\* str.lower() on a sequence of characters
Lower(s) == [i \in 1..Len(s) |-> IF s[i] \in DOMAIN LowerMap THEN LowerMap[s[i]] ELSE s[i]]

\* Python's  t in s  for strings
IsSubstring(t, s) ==
    \E k \in 0..(Len(s) - Len(t)) : \A j \in 1..Len(t) : s[k + j] = t[j]

RECURSIVE TextLen(_)
\* len() of a text made of string pieces
TextLen(t) == IF t = <<>> THEN 0 ELSE Len(Head(t)) + TextLen(Tail(t))

Min(a, b) == IF a <= b THEN a ELSE b

\* a confidence given in thousandths, in units of 1/60000
Conf(thousandths) == thousandths * 60

-----------------------------------------------------------------------------
(* The specialist registry *)

Registry == <<"personnel", "aircraft", "operations", "historical", "statistical">>

Agents ==
    [ personnel |->
        [ name |-> "Personnel Specialist",
          expertise |-> "biographical research, service records, and personal histories of RAF personnel" ],
      aircraft |->
        [ name |-> "Aircraft Specialist",
          expertise |-> "aircraft technical specifications, service history, and operational capabilities" ],
      operations |->
        [ name |-> "Operations Specialist",
          expertise |-> "mission analysis, tactical operations, and combat effectiveness" ],
      historical |->
        [ name |-> "Historical Context Specialist",
          expertise |-> "strategic analysis, historical significance, and broader wartime context" ],
      statistical |->
        [ name |-> "Statistical Analyst",
          expertise |-> "data analysis, statistical patterns, and quantitative research" ] ]

PersonnelTerms ==
    { <<"p", "a", "t", "r", "i", "c", "k">>,
      <<"c", "a", "s", "s", "i", "d", "y">>,
      <<"p", "e", "r", "s", "o", "n", "n", "e", "l">>,
      <<"c", "r", "e", "w">>,
      <<"s", "e", "r", "v", "i", "c", "e">> }

AircraftTerms ==
    { <<"a", "i", "r", "c", "r", "a", "f", "t">>,
      <<"l", "a", "n", "c", "a", "s", "t", "e", "r">>,
      <<"j", "b", "1", "7", "4">>,
      <<"b", "o", "m", "b", "e", "r">> }

OperationsTerms ==
    { <<"m", "i", "s", "s", "i", "o", "n">>,
      <<"o", "p", "e", "r", "a", "t", "i", "o", "n">>,
      <<"r", "a", "i", "d">>,
      <<"c", "o", "m", "b", "a", "t">>,
      <<"p", "a", "t", "h", "f", "i", "n", "d", "e", "r">> }

HistoricalTerms ==
    { <<"h", "i", "s", "t", "o", "r", "y">>,
      <<"c", "o", "n", "t", "e", "x", "t">>,
      <<"w", "a", "r">>,
      <<"s", "t", "r", "a", "t", "e", "g", "i", "c">> }

StatisticalTerms ==
    { <<"s", "t", "a", "t", "i", "s", "t", "i", "c", "s">>,
      <<"d", "a", "t", "a">>,
      <<"a", "n", "a", "l", "y", "s", "i", "s">>,
      <<"n", "u", "m", "b", "e", "r", "s">> }

\* any(term in query_lower for term in terms)
AnyTermIn(terms, query_lower) == \E term \in terms : IsSubstring(term, query_lower)

DefaultAgents == <<"personnel", "historical">>

\* variant of _select_agents without the default for an empty selection
select_agents_no_default(q) ==
    LET query_lower == Lower(q)
        a1 == IF AnyTermIn(PersonnelTerms, query_lower) THEN <<"personnel">> ELSE <<>>
        a2 == IF AnyTermIn(AircraftTerms, query_lower) THEN Append(a1, "aircraft") ELSE a1
        a3 == IF AnyTermIn(OperationsTerms, query_lower) THEN Append(a2, "operations") ELSE a2
        a4 == IF AnyTermIn(HistoricalTerms, query_lower) THEN Append(a3, "historical") ELSE a3
    IN  IF AnyTermIn(StatisticalTerms, query_lower) THEN Append(a4, "statistical") ELSE a4

\* variant of _select_agents whose tests are chained with elif: the first match only
select_agents_first_match(q) ==
    LET query_lower == Lower(q)
    IN  IF AnyTermIn(PersonnelTerms, query_lower) THEN <<"personnel">>
        ELSE IF AnyTermIn(AircraftTerms, query_lower) THEN <<"aircraft">>
        ELSE IF AnyTermIn(OperationsTerms, query_lower) THEN <<"operations">>
        ELSE IF AnyTermIn(HistoricalTerms, query_lower) THEN <<"historical">>
        ELSE IF AnyTermIn(StatisticalTerms, query_lower) THEN <<"statistical">>
        ELSE DefaultAgents

\* MultiAgentResearchSystem._select_agents
select_agents(q) ==
    LET query_lower == Lower(q)
        a1 == IF AnyTermIn(PersonnelTerms, query_lower) THEN <<"personnel">> ELSE <<>>
        a2 == IF AnyTermIn(AircraftTerms, query_lower) THEN Append(a1, "aircraft") ELSE a1
        a3 == IF AnyTermIn(OperationsTerms, query_lower) THEN Append(a2, "operations") ELSE a2
        a4 == IF AnyTermIn(HistoricalTerms, query_lower) THEN Append(a3, "historical") ELSE a3
        a5 == IF AnyTermIn(StatisticalTerms, query_lower) THEN Append(a4, "statistical") ELSE a4
    IN  IF a5 = <<>> THEN DefaultAgents ELSE a5

-----------------------------------------------------------------------------
(* Inputs: queries, request bodies, answers of the generative backend *)

ChunkAwardDataRaid ==
    <<"a", "w", "a", "r", "d", " ", "d", "a", "t", "a", " ", "r", "a", "i", "d", " ">>

ChunkBomberCrew == <<"B", "o", "m", "b", "e", "r", " ", "C", "r", "e", "w">>

ChunkJB174 == <<"J", "B", "1", "7", "4">>

ChunkOther == <<"x", "y", "z">>

Chunks == {ChunkAwardDataRaid, ChunkBomberCrew, ChunkJB174, ChunkOther}

RECURSIVE QueriesOfLen(_)
QueriesOfLen(n) ==
    IF n = 0 THEN {<<>>}
    ELSE {q \o c : q \in QueriesOfLen(n - 1), c \in Chunks}

Queries == UNION {QueriesOfLen(n) : n \in 0..MaxChunks}

\* request.get_json(): no JSON body, or a body whose 'query' is a string
NoBody == [present |-> FALSE]

Bodies == {NoBody} \cup {[present |-> TRUE, query |-> q] : q \in Queries}

ShortAnswer == <<"Sergeant Patrick Cassidy served as Flight Engineer with 97 Squadron RAF Pathfinders.">>

Paragraph ==
    "Lancaster JB174 of 97 Squadron was lost on the night of 8/9 October 1943 during the raid on Hanover. "

LongAnswer == [i \in 1..10 |-> Paragraph]

\* what one chat.completions.create call can do: raise, or answer with a text
BackendOutcomes ==
    { [kind |-> "raise", error |-> "Connection error."],
      [kind |-> "text", content |-> <<>>],
      [kind |-> "text", content |-> ShortAnswer],
      [kind |-> "text", content |-> LongAnswer] }

-----------------------------------------------------------------------------
(* SpecialistAgent.analyze *)

FallbackConfidence == 500

DegradedConfidence == 300

ConfidenceCap == 900

AgentResponse(agent_key, analysis, confidence) ==
    [ agent_name |-> Agents[agent_key].name,
      analysis |-> analysis,
      confidence |-> confidence,
      sources |-> <<>> ]

\* the branch taken when self.client is None
FallbackResponse(agent_key, q) ==
    AgentResponse(agent_key,
        <<"AI analysis temporarily unavailable. ", Agents[agent_key].expertise,
          " specialist would analyze: ">> \o q,
        Conf(FallbackConfidence))

\* variant of the except branch that keeps the fallback's confidence
ErrorResponseFallbackConfidence(agent_key, q, e) ==
    AgentResponse(agent_key,
        <<"Analysis error: ", e, ". ", Agents[agent_key].expertise,
          " specialist attempted to analyze: ">> \o q,
        Conf(FallbackConfidence))

\* the except branch
ErrorResponse(agent_key, q, e) ==
    AgentResponse(agent_key,
        <<"Analysis error: ", e, ". ", Agents[agent_key].expertise,
          " specialist attempted to analyze: ">> \o q,
        Conf(DegradedConfidence))

\* the try branch when the call answers: min(0.9, len(analysis) / 1000)
AnswerResponse(agent_key, content) ==
    AgentResponse(agent_key, content, Min(Conf(ConfidenceCap), Conf(TextLen(content))))

\* variant of analyze without the try/except: the backend's exception leaves it
analyze_propagating(agent_key, q, context, outcome) ==
    IF ~client_configured
    THEN [called |-> FALSE, raised |-> FALSE, response |-> FallbackResponse(agent_key, q)]
    ELSE IF outcome.kind = "raise"
    THEN [called |-> TRUE, raised |-> TRUE, response |-> ErrorResponse(agent_key, q, outcome.error)]
    ELSE [called |-> TRUE, raised |-> FALSE, response |-> AnswerResponse(agent_key, outcome.content)]

\* variant of analyze without the test of self.client: the call is attempted on None,
\* the AttributeError is caught by the except branch
analyze_no_client_test(agent_key, q, context, outcome) ==
    IF ~client_configured
    THEN [ called |-> TRUE, raised |-> FALSE,
           response |-> ErrorResponse(agent_key, q, "'NoneType' object has no attribute 'chat'") ]
    ELSE IF outcome.kind = "raise"
    THEN [called |-> TRUE, raised |-> FALSE, response |-> ErrorResponse(agent_key, q, outcome.error)]
    ELSE [called |-> TRUE, raised |-> FALSE, response |-> AnswerResponse(agent_key, outcome.content)]

\* analyze(query, context): whether the call was attempted, whether an exception
\* leaves analyze, and the AgentResponse returned otherwise
analyze(agent_key, q, context, outcome) ==
    IF ~client_configured
    THEN [called |-> FALSE, raised |-> FALSE, response |-> FallbackResponse(agent_key, q)]
    ELSE IF outcome.kind = "raise"
    THEN [called |-> TRUE, raised |-> FALSE, response |-> ErrorResponse(agent_key, q, outcome.error)]
    ELSE [called |-> TRUE, raised |-> FALSE, response |-> AnswerResponse(agent_key, outcome.content)]

-----------------------------------------------------------------------------
(* The record store and MultiAgentResearchSystem._get_database_context *)

PatrickName == <<"P", "a", "t", "r", "i", "c", "k", " ", "C", "a", "s", "s", "i", "d", "y">>

PatrickServiceNumber == <<"1", "8", "0", "2", "0", "8", "2">>

PatrickBiography ==
    <<"F", "l", "i", "g", "h", "t", " ", "E", "n", "g", "i", "n", "e", "e", "r", " ", "w", "i",
      "t", "h", " ", "9", "7", " ", "S", "q", "u", "a", "d", "r", "o", "n", " ", "R", "A", "F",
      " ", "P", "a", "t", "h", "f", "i", "n", "d", "e", "r", "s", ".", " ", "P", "a", "t", "r",
      "i", "c", "k", " ", "s", "e", "r", "v", "e", "d", " ", "w", "i", "t", "h", " ", "t", "h",
      "e", " ", "e", "l", "i", "t", "e", " ", "P", "a", "t", "h", "f", "i", "n", "d", "e", "r",
      " ", "F", "o", "r", "c", "e", ",", " ", "r", "e", "s", "p", "o", "n", "s", "i", "b", "l",
      "e", " ", "f", "o", "r", " ", "t", "a", "r", "g", "e", "t", " ", "m", "a", "r", "k", "i",
      "n", "g", " ", "a", "n", "d", " ", "l", "e", "a", "d", "i", "n", "g", " ", "b", "o", "m",
      "b", "e", "r", " ", "f", "o", "r", "m", "a", "t", "i", "o", "n", "s", " ", "t", "o", " ",
      "t", "h", "e", "i", "r", " ", "t", "a", "r", "g", "e", "t", "s", ".", " ", "H", "e", " ",
      "w", "a", "s", " ", "k", "i", "l", "l", "e", "d", " ", "w", "h", "e", "n", " ", "L", "a",
      "n", "c", "a", "s", "t", "e", "r", " ", "J", "B", "1", "7", "4", " ", "w", "a", "s", " ",
      "s", "h", "o", "t", " ", "d", "o", "w", "n", " ", "b", "y", " ", "G", "e", "r", "m", "a",
      "n", " ", "n", "i", "g", "h", "t", " ", "f", "i", "g", "h", "t", "e", "r", "s", " ", "d",
      "u", "r", "i", "n", "g", " ", "a", " ", "r", "a", "i", "d", " ", "o", "n", " ", "H", "a",
      "n", "o", "v", "e", "r", " ", "o", "n", " ", "8", "/", "9", " ", "O", "c", "t", "o", "b",
      "e", "r", " ", "1", "9", "4", "3", ".", " ", "O", "n", "l", "y", " ", "2", "0", " ", "y",
      "e", "a", "r", "s", " ", "o", "l", "d", " ", "a", "t", " ", "t", "h", "e", " ", "t", "i",
      "m", "e", " ", "o", "f", " ", "h", "i", "s", " ", "d", "e", "a", "t", "h", ",", " ", "P",
      "a", "t", "r", "i", "c", "k", " ", "e", "x", "e", "m", "p", "l", "i", "f", "i", "e", "d",
      " ", "t", "h", "e", " ", "c", "o", "u", "r", "a", "g", "e", " ", "a", "n", "d", " ", "d",
      "e", "d", "i", "c", "a", "t", "i", "o", "n", " ", "o", "f", " ", "R", "A", "F", " ", "B",
      "o", "m", "b", "e", "r", " ", "C", "o", "m", "m", "a", "n", "d", " ", "a", "i", "r", "c",
      "r", "e", "w", ".">>

JB174Serial == <<"J", "B", "1", "7", "4">>

JB174ServiceHistory ==
    <<"S", "e", "r", "v", "e", "d", " ", "w", "i", "t", "h", " ", "9", "7", " ", "S", "q", "u",
      "a", "d", "r", "o", "n", " ", "R", "A", "F", " ", "P", "a", "t", "h", "f", "i", "n", "d",
      "e", "r", "s", ".", " ", "S", "h", "o", "t", " ", "d", "o", "w", "n", " ", "d", "u", "r",
      "i", "n", "g", " ", "r", "a", "i", "d", " ", "o", "n", " ", "H", "a", "n", "o", "v", "e",
      "r", " ", "8", "/", "9", " ", "O", "c", "t", "o", "b", "e", "r", " ", "1", "9", "4", "3",
      ".">>

\* the personnel table after _initialize_database
PersonnelTable ==
    << [ name |-> PatrickName,
           service_number |-> PatrickServiceNumber,
           rank |->
             <<"S", "e", "r", "g", "e", "a", "n", "t">>,
           role |->
             <<"F", "l", "i", "g", "h", "t", " ", "E", "n", "g", "i", "n", "e", "e", "r">>,
           squadron |->
             <<"9", "7", " ", "S", "q", "u", "a", "d", "r", "o", "n", " ", "R", "A", "F",
               " ", "P", "a", "t", "h", "f", "i", "n", "d", "e", "r", "s">>,
           biography |-> PatrickBiography ] >>

\* the aircraft table after _initialize_database
AircraftTable ==
    << [ serial_number |-> JB174Serial,
           aircraft_type |->
             <<"L", "a", "n", "c", "a", "s", "t", "e", "r">>,
           squadron |->
             <<"9", "7", " ", "S", "q", "u", "a", "d", "r", "o", "n">>,
           service_history |-> JB174ServiceHistory ] >>

(* the rows of src/app.py, which keeps its store in the same file *)

AppCassidyBiography ==
    <<"F", "l", "i", "g", "h", "t", " ", "E", "n", "g", "i", "n", "e", "e", "r", " ", "w",
      "i", "t", "h", " ", "9", "7", " ", "S", "q", "u", "a", "d", "r", "o", "n", " ", "R",
      "A", "F", " ", "P", "a", "t", "h", "f", "i", "n", "d", "e", "r", "s", ".", " ", "P",
      "a", "t", "r", "i", "c", "k", " ", "s", "e", "r", "v", "e", "d", " ", "w", "i", "t",
      "h", " ", "t", "h", "e", " ", "e", "l", "i", "t", "e", " ", "P", "a", "t", "h", "f",
      "i", "n", "d", "e", "r", " ", "F", "o", "r", "c", "e", ",", " ", "r", "e", "s", "p",
      "o", "n", "s", "i", "b", "l", "e", " ", "f", "o", "r", " ", "t", "a", "r", "g", "e",
      "t", " ", "m", "a", "r", "k", "i", "n", "g", " ", "a", "n", "d", " ", "l", "e", "a",
      "d", "i", "n", "g", " ", "b", "o", "m", "b", "e", "r", " ", "f", "o", "r", "m", "a",
      "t", "i", "o", "n", "s", " ", "t", "o", " ", "t", "h", "e", "i", "r", " ", "t", "a",
      "r", "g", "e", "t", "s", ".", " ", "H", "e", " ", "w", "a", "s", " ", "k", "i", "l",
      "l", "e", "d", " ", "w", "h", "e", "n", " ", "L", "a", "n", "c", "a", "s", "t", "e",
      "r", " ", "J", "B", "1", "7", "4", " ", "w", "a", "s", " ", "s", "h", "o", "t", " ",
      "d", "o", "w", "n", " ", "b", "y", " ", "G", "e", "r", "m", "a", "n", " ", "n", "i",
      "g", "h", "t", " ", "f", "i", "g", "h", "t", "e", "r", "s", " ", "d", "u", "r", "i",
      "n", "g", " ", "a", " ", "r", "a", "i", "d", " ", "o", "n", " ", "H", "a", "n", "o",
      "v", "e", "r", " ", "o", "n", " ", "8", "/", "9", " ", "O", "c", "t", "o", "b", "e",
      "r", " ", "1", "9", "4", "3", ".", " ", "O", "n", "l", "y", " ", "2", "0", " ", "y",
      "e", "a", "r", "s", " ", "o", "l", "d", " ", "a", "t", " ", "t", "h", "e", " ", "t",
      "i", "m", "e", " ", "o", "f", " ", "h", "i", "s", " ", "d", "e", "a", "t", "h", ",",
      " ", "P", "a", "t", "r", "i", "c", "k", " ", "e", "x", "e", "m", "p", "l", "i", "f",
      "i", "e", "d", " ", "t", "h", "e", " ", "c", "o", "u", "r", "a", "g", "e", " ", "a",
      "n", "d", " ", "d", "e", "d", "i", "c", "a", "t", "i", "o", "n", " ", "o", "f", " ",
      "R", "A", "F", " ", "B", "o", "m", "b", "e", "r", " ", "C", "o", "m", "m", "a", "n",
      "d", " ", "a", "i", "r", "c", "r", "e", "w", ".", " ", "H", "e", " ", "i", "s", " ",
      "c", "o", "m", "m", "e", "m", "o", "r", "a", "t", "e", "d", " ", "o", "n", " ", "t",
      "h", "e", " ", "R", "u", "n", "n", "y", "m", "e", "d", "e", " ", "M", "e", "m", "o",
      "r", "i", "a", "l", ",", " ", "w", "h", "i", "c", "h", " ", "h", "o", "n", "o", "r",
      "s", " ", "t", "h", "o", "s", "e", " ", "w", "h", "o", " ", "h", "a", "v", "e", " ",
      "n", "o", " ", "k", "n", "o", "w", "n", " ", "g", "r", "a", "v", "e", ".">>

AppGibsonBiography ==
    <<"W", "i", "n", "g", " ", "C", "o", "m", "m", "a", "n", "d", "e", "r", " ", "G", "u",
      "y", " ", "P", "e", "n", "r", "o", "s", "e", " ", "G", "i", "b", "s", "o", "n", " ",
      "V", "C", " ", "D", "S", "O", "*", " ", "D", "F", "C", "*", " ", "w", "a", "s", " ",
      "a", " ", "d", "i", "s", "t", "i", "n", "g", "u", "i", "s", "h", "e", "d", " ", "R",
      "o", "y", "a", "l", " ", "A", "i", "r", " ", "F", "o", "r", "c", "e", " ", "p", "i",
      "l", "o", "t", " ", "d", "u", "r", "i", "n", "g", " ", "t", "h", "e", " ", "S", "e",
      "c", "o", "n", "d", " ", "W", "o", "r", "l", "d", " ", "W", "a", "r", " ", "a", "n",
      "d", " ", "a", " ", "r", "e", "c", "i", "p", "i", "e", "n", "t", " ", "o", "f", " ",
      "t", "h", "e", " ", "V", "i", "c", "t", "o", "r", "i", "a", " ", "C", "r", "o", "s",
      "s", ",", " ", "t", "h", "e", " ", "h", "i", "g", "h", "e", "s", "t", " ", "a", "w",
      "a", "r", "d", " ", "f", "o", "r", " ", "g", "a", "l", "l", "a", "n", "t", "r", "y",
      " ", "i", "n", " ", "t", "h", "e", " ", "f", "a", "c", "e", " ", "o", "f", " ", "t",
      "h", "e", " ", "e", "n", "e", "m", "y", ".", " ", "H", "e", " ", "w", "a", "s", " ",
      "t", "h", "e", " ", "f", "i", "r", "s", "t", " ", "c", "o", "m", "m", "a", "n", "d",
      "i", "n", "g", " ", "o", "f", "f", "i", "c", "e", "r", " ", "o", "f", " ", "N", "o",
      ".", " ", "6", "1", "7", " ", "S", "q", "u", "a", "d", "r", "o", "n", ",", " ", "w",
      "h", "i", "c", "h", " ", "h", "e", " ", "l", "e", "d", " ", "i", "n", " ", "t", "h",
      "e", " ", "f", "a", "m", "o", "u", "s", " ", "\"", "D", "a", "m", "b", "u", "s", "t",
      "e", "r", "s", "\"", " ", "r", "a", "i", "d", " ", "o", "n", " ", "G", "e", "r", "m",
      "a", "n", " ", "d", "a", "m", "s", " ", "i", "n", " ", "M", "a", "y", " ", "1", "9",
      "4", "3", ".", " ", "G", "i", "b", "s", "o", "n", " ", "c", "o", "m", "p", "l", "e",
      "t", "e", "d", " ", "1", "7", "4", " ", "o", "p", "e", "r", "a", "t", "i", "o", "n",
      "a", "l", " ", "s", "o", "r", "t", "i", "e", "s", " ", "b", "e", "f", "o", "r", "e",
      " ", "h", "i", "s", " ", "d", "e", "a", "t", "h", ".">>

AppSmithBiography ==
    <<"N", "a", "v", "i", "g", "a", "t", "o", "r", " ", "w", "i", "t", "h", " ", "9", "7",
      " ", "S", "q", "u", "a", "d", "r", "o", "n", " ", "R", "A", "F", " ", "P", "a", "t",
      "h", "f", "i", "n", "d", "e", "r", "s", ".", " ", "C", "o", "m", "p", "l", "e", "t",
      "e", "d", " ", "3", "0", " ", "o", "p", "e", "r", "a", "t", "i", "o", "n", "a", "l",
      " ", "s", "o", "r", "t", "i", "e", "s", " ", "o", "v", "e", "r", " ", "o", "c", "c",
      "u", "p", "i", "e", "d", " ", "E", "u", "r", "o", "p", "e", ".">>

AppJonesBiography ==
    <<"W", "i", "r", "e", "l", "e", "s", "s", " ", "O", "p", "e", "r", "a", "t", "o", "r",
      " ", "w", "i", "t", "h", " ", "9", "7", " ", "S", "q", "u", "a", "d", "r", "o", "n",
      " ", "R", "A", "F", " ", "P", "a", "t", "h", "f", "i", "n", "d", "e", "r", "s", ".",
      " ", "R", "e", "s", "p", "o", "n", "s", "i", "b", "l", "e", " ", "f", "o", "r", " ",
      "r", "a", "d", "i", "o", " ", "c", "o", "m", "m", "u", "n", "i", "c", "a", "t", "i",
      "o", "n", "s", " ", "d", "u", "r", "i", "n", "g", " ", "t", "a", "r", "g", "e", "t",
      " ", "m", "a", "r", "k", "i", "n", "g", " ", "o", "p", "e", "r", "a", "t", "i", "o",
      "n", "s", ".">>

AppBrownBiography ==
    <<"B", "o", "m", "b", " ", "A", "i", "m", "e", "r", " ", "w", "i", "t", "h", " ", "6",
      "1", "7", " ", "S", "q", "u", "a", "d", "r", "o", "n", ".", " ", "P", "a", "r", "t",
      "i", "c", "i", "p", "a", "t", "e", "d", " ", "i", "n", " ", "t", "h", "e", " ", "f",
      "a", "m", "o", "u", "s", " ", "D", "a", "m", "b", "u", "s", "t", "e", "r", "s", " ",
      "r", "a", "i", "d", " ", "o", "n", " ", "G", "e", "r", "m", "a", "n", " ", "d", "a",
      "m", "s", " ", "i", "n", " ", "M", "a", "y", " ", "1", "9", "4", "3", ".">>

\* the personnel rows one run of app.py's initialize_database inserts
AppPersonnelSeed ==
    << [ name |->
             <<"S", "e", "r", "g", "e", "a", "n", "t", " ", "P", "a", "t", "r", "i", "c",
               "k", " ", "C", "a", "s", "s", "i", "d", "y">>,
           service_number |->
             <<"1", "8", "0", "2", "0", "8", "2">>,
           rank |->
             <<"S", "e", "r", "g", "e", "a", "n", "t">>,
           role |->
             <<"F", "l", "i", "g", "h", "t", " ", "E", "n", "g", "i", "n", "e", "e", "r">>,
           squadron |->
             <<"9", "7", " ", "S", "q", "u", "a", "d", "r", "o", "n", " ", "R", "A", "F",
               " ", "P", "a", "t", "h", "f", "i", "n", "d", "e", "r", "s">>,
           biography |-> AppCassidyBiography ],
       [ name |->
             <<"W", "i", "n", "g", " ", "C", "o", "m", "m", "a", "n", "d", "e", "r", " ",
               "G", "u", "y", " ", "G", "i", "b", "s", "o", "n">>,
           service_number |->
             <<"3", "9", "4", "3", "8">>,
           rank |->
             <<"W", "i", "n", "g", " ", "C", "o", "m", "m", "a", "n", "d", "e", "r">>,
           role |->
             <<"P", "i", "l", "o", "t">>,
           squadron |->
             <<"6", "1", "7", " ", "S", "q", "u", "a", "d", "r", "o", "n", " ", "\"", "D",
               "a", "m", " ", "B", "u", "s", "t", "e", "r", "s", "\"">>,
           biography |-> AppGibsonBiography ],
       [ name |->
             <<"F", "l", "i", "g", "h", "t", " ", "L", "i", "e", "u", "t", "e", "n", "a",
               "n", "t", " ", "J", "o", "h", "n", " ", "S", "m", "i", "t", "h">>,
           service_number |->
             <<"1", "2", "3", "4", "5", "6">>,
           rank |->
             <<"F", "l", "i", "g", "h", "t", " ", "L", "i", "e", "u", "t", "e", "n", "a",
               "n", "t">>,
           role |->
             <<"N", "a", "v", "i", "g", "a", "t", "o", "r">>,
           squadron |->
             <<"9", "7", " ", "S", "q", "u", "a", "d", "r", "o", "n", " ", "R", "A", "F",
               " ", "P", "a", "t", "h", "f", "i", "n", "d", "e", "r", "s">>,
           biography |-> AppSmithBiography ],
       [ name |->
             <<"S", "e", "r", "g", "e", "a", "n", "t", " ", "W", "i", "l", "l", "i", "a",
               "m", " ", "J", "o", "n", "e", "s">>,
           service_number |->
             <<"7", "8", "9", "0", "1", "2">>,
           rank |->
             <<"S", "e", "r", "g", "e", "a", "n", "t">>,
           role |->
             <<"W", "i", "r", "e", "l", "e", "s", "s", " ", "O", "p", "e", "r", "a", "t",
               "o", "r">>,
           squadron |->
             <<"9", "7", " ", "S", "q", "u", "a", "d", "r", "o", "n", " ", "R", "A", "F",
               " ", "P", "a", "t", "h", "f", "i", "n", "d", "e", "r", "s">>,
           biography |-> AppJonesBiography ],
       [ name |->
             <<"F", "l", "y", "i", "n", "g", " ", "O", "f", "f", "i", "c", "e", "r", " ",
               "R", "o", "b", "e", "r", "t", " ", "B", "r", "o", "w", "n">>,
           service_number |->
             <<"3", "4", "5", "6", "7", "8">>,
           rank |->
             <<"F", "l", "y", "i", "n", "g", " ", "O", "f", "f", "i", "c", "e", "r">>,
           role |->
             <<"B", "o", "m", "b", " ", "A", "i", "m", "e", "r">>,
           squadron |->
             <<"6", "1", "7", " ", "S", "q", "u", "a", "d", "r", "o", "n", " ", "\"", "D",
               "a", "m", " ", "B", "u", "s", "t", "e", "r", "s", "\"">>,
           biography |-> AppBrownBiography ] >>

AppJB174ServiceHistory ==
    <<"S", "e", "r", "v", "e", "d", " ", "w", "i", "t", "h", " ", "9", "7", " ", "S", "q",
      "u", "a", "d", "r", "o", "n", " ", "R", "A", "F", " ", "P", "a", "t", "h", "f", "i",
      "n", "d", "e", "r", "s", " ", "f", "r", "o", "m", " ", "A", "u", "g", "u", "s", "t",
      " ", "1", "9", "4", "3", ".", " ", "S", "e", "r", "v", "i", "c", "e", " ", "l", "i",
      "f", "e", ":", " ", "4", "7", " ", "d", "a", "y", "s", " ", "(", "s", "h", "o", "r",
      "t", "e", "s", "t", " ", "r", "e", "c", "o", "r", "d", "e", "d", " ", "s", "e", "r",
      "v", "i", "c", "e", " ", "l", "i", "f", "e", " ", "i", "n", " ", "s", "q", "u", "a",
      "d", "r", "o", "n", " ", "h", "i", "s", "t", "o", "r", "y", ")", ".", " ", "U", "s",
      "e", "d", " ", "f", "o", "r", " ", "t", "a", "r", "g", "e", "t", " ", "m", "a", "r",
      "k", "i", "n", "g", " ", "o", "p", "e", "r", "a", "t", "i", "o", "n", "s", " ", "o",
      "v", "e", "r", " ", "o", "c", "c", "u", "p", "i", "e", "d", " ", "E", "u", "r", "o",
      "p", "e", ".">>

\* the aircraft row one run of app.py's initialize_database inserts
AppAircraftSeed ==
    << [ serial_number |-> JB174Serial,
           aircraft_type |->
             <<"A", "v", "r", "o", " ", "L", "a", "n", "c", "a", "s", "t", "e", "r", " ",
               "B", ".", "I", "I", "I">>,
           squadron |->
             <<"9", "7", " ", "S", "q", "u", "a", "d", "r", "o", "n", " ", "R", "A", "F",
               " ", "P", "a", "t", "h", "f", "i", "n", "d", "e", "r", "s">>,
           crew_details |->
             <<"P", "a", "t", "r", "i", "c", "k", " ", "C", "a", "s", "s", "i", "d", "y",
               " ", "(", "F", "l", "i", "g", "h", "t", " ", "E", "n", "g", "i", "n", "e",
               "e", "r", ")", ",", " ", "c", "r", "e", "w", " ", "o", "f", " ", "7", " ",
               "i", "n", "c", "l", "u", "d", "i", "n", "g", " ", "p", "i", "l", "o", "t",
               ",", " ", "n", "a", "v", "i", "g", "a", "t", "o", "r", ",", " ", "b", "o",
               "m", "b", " ", "a", "i", "m", "e", "r", ",", " ", "w", "i", "r", "e", "l",
               "e", "s", "s", " ", "o", "p", "e", "r", "a", "t", "o", "r", ",", " ", "a",
               "n", "d", " ", "t", "w", "o", " ", "g", "u", "n", "n", "e", "r", "s">>,
           service_history |-> AppJB174ServiceHistory ] >>

(* the rows of src/app_v2_fixed.py, which keeps its store in a file of its own *)

V2CassidyBiography ==
    <<"F", "l", "i", "g", "h", "t", " ", "E", "n", "g", "i", "n", "e", "e", "r", " ", "w",
      "i", "t", "h", " ", "9", "7", " ", "S", "q", "u", "a", "d", "r", "o", "n", " ", "R",
      "A", "F", " ", "P", "a", "t", "h", "f", "i", "n", "d", "e", "r", "s", ".", " ", "P",
      "a", "t", "r", "i", "c", "k", " ", "s", "e", "r", "v", "e", "d", " ", "w", "i", "t",
      "h", " ", "t", "h", "e", " ", "e", "l", "i", "t", "e", " ", "P", "a", "t", "h", "f",
      "i", "n", "d", "e", "r", " ", "F", "o", "r", "c", "e", ",", " ", "r", "e", "s", "p",
      "o", "n", "s", "i", "b", "l", "e", " ", "f", "o", "r", " ", "t", "a", "r", "g", "e",
      "t", " ", "m", "a", "r", "k", "i", "n", "g", " ", "a", "n", "d", " ", "l", "e", "a",
      "d", "i", "n", "g", " ", "b", "o", "m", "b", "e", "r", " ", "f", "o", "r", "m", "a",
      "t", "i", "o", "n", "s", " ", "t", "o", " ", "t", "h", "e", "i", "r", " ", "t", "a",
      "r", "g", "e", "t", "s", ".", " ", "H", "e", " ", "w", "a", "s", " ", "k", "i", "l",
      "l", "e", "d", " ", "w", "h", "e", "n", " ", "L", "a", "n", "c", "a", "s", "t", "e",
      "r", " ", "J", "B", "1", "7", "4", " ", "w", "a", "s", " ", "s", "h", "o", "t", " ",
      "d", "o", "w", "n", " ", "b", "y", " ", "G", "e", "r", "m", "a", "n", " ", "n", "i",
      "g", "h", "t", " ", "f", "i", "g", "h", "t", "e", "r", "s", " ", "d", "u", "r", "i",
      "n", "g", " ", "a", " ", "r", "a", "i", "d", " ", "o", "n", " ", "H", "a", "n", "o",
      "v", "e", "r", " ", "o", "n", " ", "8", "/", "9", " ", "O", "c", "t", "o", "b", "e",
      "r", " ", "1", "9", "4", "3", ".", " ", "O", "n", "l", "y", " ", "2", "0", " ", "y",
      "e", "a", "r", "s", " ", "o", "l", "d", " ", "a", "t", " ", "t", "h", "e", " ", "t",
      "i", "m", "e", " ", "o", "f", " ", "h", "i", "s", " ", "d", "e", "a", "t", "h", ",",
      " ", "P", "a", "t", "r", "i", "c", "k", " ", "e", "x", "e", "m", "p", "l", "i", "f",
      "i", "e", "d", " ", "t", "h", "e", " ", "c", "o", "u", "r", "a", "g", "e", " ", "a",
      "n", "d", " ", "d", "e", "d", "i", "c", "a", "t", "i", "o", "n", " ", "o", "f", " ",
      "R", "A", "F", " ", "B", "o", "m", "b", "e", "r", " ", "C", "o", "m", "m", "a", "n",
      "d", " ", "a", "i", "r", "c", "r", "e", "w", ".", " ", "H", "e", " ", "i", "s", " ",
      "c", "o", "m", "m", "e", "m", "o", "r", "a", "t", "e", "d", " ", "o", "n", " ", "t",
      "h", "e", " ", "R", "u", "n", "n", "y", "m", "e", "d", "e", " ", "M", "e", "m", "o",
      "r", "i", "a", "l", ",", " ", "w", "h", "i", "c", "h", " ", "h", "o", "n", "o", "r",
      "s", " ", "t", "h", "o", "s", "e", " ", "w", "h", "o", " ", "h", "a", "v", "e", " ",
      "n", "o", " ", "k", "n", "o", "w", "n", " ", "g", "r", "a", "v", "e", ".">>

V2GibsonBiography ==
    <<"L", "e", "g", "e", "n", "d", "a", "r", "y", " ", "R", "A", "F", " ", "p", "i", "l",
      "o", "t", " ", "a", "n", "d", " ", "l", "e", "a", "d", "e", "r", " ", "o", "f", " ",
      "6", "1", "7", " ", "S", "q", "u", "a", "d", "r", "o", "n", ".", " ", "G", "i", "b",
      "s", "o", "n", " ", "l", "e", "d", " ", "t", "h", "e", " ", "f", "a", "m", "o", "u",
      "s", " ", "D", "a", "m", " ", "B", "u", "s", "t", "e", "r", "s", " ", "r", "a", "i",
      "d", " ", "(", "O", "p", "e", "r", "a", "t", "i", "o", "n", " ", "C", "h", "a", "s",
      "t", "i", "s", "e", ")", " ", "o", "n", " ", "1", "6", "/", "1", "7", " ", "M", "a",
      "y", " ", "1", "9", "4", "3", ",", " ", "f", "o", "r", " ", "w", "h", "i", "c", "h",
      " ", "h", "e", " ", "w", "a", "s", " ", "a", "w", "a", "r", "d", "e", "d", " ", "t",
      "h", "e", " ", "V", "i", "c", "t", "o", "r", "i", "a", " ", "C", "r", "o", "s", "s",
      ".", " ", "K", "n", "o", "w", "n", " ", "f", "o", "r", " ", "h", "i", "s", " ", "e",
      "x", "c", "e", "p", "t", "i", "o", "n", "a", "l", " ", "l", "e", "a", "d", "e", "r",
      "s", "h", "i", "p", " ", "a", "n", "d", " ", "f", "l", "y", "i", "n", "g", " ", "s",
      "k", "i", "l", "l", "s", ",", " ", "h", "e", " ", "c", "o", "m", "p", "l", "e", "t",
      "e", "d", " ", "1", "7", "4", " ", "o", "p", "e", "r", "a", "t", "i", "o", "n", "a",
      "l", " ", "f", "l", "i", "g", "h", "t", "s", ".", " ", "G", "i", "b", "s", "o", "n",
      " ", "w", "a", "s", " ", "k", "i", "l", "l", "e", "d", " ", "i", "n", " ", "a", "c",
      "t", "i", "o", "n", " ", "w", "h", "i", "l", "e", " ", "f", "l", "y", "i", "n", "g",
      " ", "a", " ", "M", "o", "s", "q", "u", "i", "t", "o", " ", "o", "n", " ", "a", " ",
      "m", "a", "r", "k", "i", "n", "g", " ", "m", "i", "s", "s", "i", "o", "n", " ", "o",
      "v", "e", "r", " ", "t", "h", "e", " ", "N", "e", "t", "h", "e", "r", "l", "a", "n",
      "d", "s", ".">>

V2HopgoodBiography ==
    <<"P", "i", "l", "o", "t", " ", "w", "i", "t", "h", " ", "6", "1", "7", " ", "S", "q",
      "u", "a", "d", "r", "o", "n", " ", "w", "h", "o", " ", "p", "a", "r", "t", "i", "c",
      "i", "p", "a", "t", "e", "d", " ", "i", "n", " ", "O", "p", "e", "r", "a", "t", "i",
      "o", "n", " ", "C", "h", "a", "s", "t", "i", "s", "e", " ", "(", "D", "a", "m", " ",
      "B", "u", "s", "t", "e", "r", "s", " ", "r", "a", "i", "d", ")", ".", " ", "F", "l",
      "y", "i", "n", "g", " ", "L", "a", "n", "c", "a", "s", "t", "e", "r", " ", "E", "D",
      "9", "2", "5", " ", "\"", "M", "-", "M", "o", "t", "h", "e", "r", "\"", ",", " ",
      "H", "o", "p", "g", "o", "o", "d", "'", "s", " ", "a", "i", "r", "c", "r", "a", "f",
      "t", " ", "w", "a", "s", " ", "h", "i", "t", " ", "b", "y", " ", "f", "l", "a", "k",
      " ", "d", "u", "r", "i", "n", "g", " ", "t", "h", "e", " ", "a", "t", "t", "a", "c",
      "k", " ", "o", "n", " ", "t", "h", "e", " ", "M", "U+221A", "U+2202", "h", "n", "e",
      " ", "D", "a", "m", ".", " ", "D", "e", "s", "p", "i", "t", "e", " ", "s", "e", "v",
      "e", "r", "e", " ", "d", "a", "m", "a", "g", "e", ",", " ", "h", "e", " ", "a", "t",
      "t", "e", "m", "p", "t", "e", "d", " ", "t", "o", " ", "c", "o", "n", "t", "i", "n",
      "u", "e", " ", "t", "h", "e", " ", "m", "i", "s", "s", "i", "o", "n", " ", "b", "u",
      "t", " ", "c", "r", "a", "s", "h", "e", "d", " ", "s", "h", "o", "r", "t", "l", "y",
      " ", "a", "f", "t", "e", "r", ",", " ", "k", "i", "l", "l", "i", "n", "g", " ", "a",
      "l", "l", " ", "c", "r", "e", "w", " ", "m", "e", "m", "b", "e", "r", "s", " ", "e",
      "x", "c", "e", "p", "t", " ", "t", "h", "e", " ", "r", "e", "a", "r", " ", "g", "u",
      "n", "n", "e", "r", " ", "a", "n", "d", " ", "f", "l", "i", "g", "h", "t", " ", "e",
      "n", "g", "i", "n", "e", "e", "r", ".">>

V2MaudslayBiography ==
    <<"P", "i", "l", "o", "t", " ", "w", "i", "t", "h", " ", "6", "1", "7", " ", "S", "q",
      "u", "a", "d", "r", "o", "n", " ", "d", "u", "r", "i", "n", "g", " ", "O", "p", "e",
      "r", "a", "t", "i", "o", "n", " ", "C", "h", "a", "s", "t", "i", "s", "e", ".", " ",
      "F", "l", "y", "i", "n", "g", " ", "L", "a", "n", "c", "a", "s", "t", "e", "r", " ",
      "E", "D", "9", "3", "7", " ", "\"", "Z", "-", "Z", "e", "b", "r", "a", "\"", ",",
      " ", "M", "a", "u", "d", "s", "l", "a", "y", " ", "a", "t", "t", "a", "c", "k", "e",
      "d", " ", "t", "h", "e", " ", "E", "d", "e", "r", " ", "D", "a", "m", " ", "b", "u",
      "t", " ", "h", "i", "s", " ", "a", "i", "r", "c", "r", "a", "f", "t", " ", "w", "a",
      "s", " ", "d", "a", "m", "a", "g", "e", "d", " ", "b", "y", " ", "t", "h", "e", " ",
      "e", "x", "p", "l", "o", "s", "i", "o", "n", " ", "o", "f", " ", "h", "i", "s", " ",
      "o", "w", "n", " ", "b", "o", "u", "n", "c", "i", "n", "g", " ", "b", "o", "m", "b",
      ".", " ", "T", "h", "e", " ", "a", "i", "r", "c", "r", "a", "f", "t", " ", "c", "r",
      "a", "s", "h", "e", "d", " ", "o", "n", " ", "t", "h", "e", " ", "r", "e", "t", "u",
      "r", "n", " ", "j", "o", "u", "r", "n", "e", "y", " ", "t", "o", " ", "E", "n", "g",
      "l", "a", "n", "d", ",", " ", "k", "i", "l", "l", "i", "n", "g", " ", "a", "l", "l",
      " ", "s", "e", "v", "e", "n", " ", "c", "r", "e", "w", " ", "m", "e", "m", "b", "e",
      "r", "s", ".">>

V2MaltbyBiography ==
    <<"P", "i", "l", "o", "t", " ", "w", "i", "t", "h", " ", "6", "1", "7", " ", "S", "q",
      "u", "a", "d", "r", "o", "n", " ", "w", "h", "o", " ", "s", "u", "c", "c", "e", "s",
      "s", "f", "u", "l", "l", "y", " ", "b", "r", "e", "a", "c", "h", "e", "d", " ", "t",
      "h", "e", " ", "M", "U+221A", "U+2202", "h", "n", "e", " ", "D", "a", "m", " ", "d",
      "u", "r", "i", "n", "g", " ", "O", "p", "e", "r", "a", "t", "i", "o", "n", " ", "C",
      "h", "a", "s", "t", "i", "s", "e", ".", " ", "F", "l", "y", "i", "n", "g", " ", "L",
      "a", "n", "c", "a", "s", "t", "e", "r", " ", "E", "D", "9", "0", "6", " ", "\"", "J",
      "-", "J", "o", "h", "n", "n", "y", "\"", ",", " ", "M", "a", "l", "t", "b", "y", " ",
      "d", "e", "l", "i", "v", "e", "r", "e", "d", " ", "t", "h", "e", " ", "f", "i", "n",
      "a", "l", " ", "b", "l", "o", "w", " ", "t", "h", "a", "t", " ", "c", "a", "u", "s",
      "e", "d", " ", "t", "h", "e", " ", "d", "a", "m", " ", "t", "o", " ", "c", "o", "l",
      "l", "a", "p", "s", "e", ".", " ", "H", "e", " ", "w", "a", "s", " ", "l", "a", "t",
      "e", "r", " ", "k", "i", "l", "l", "e", "d", " ", "i", "n", " ", "a", "c", "t", "i",
      "o", "n", " ", "d", "u", "r", "i", "n", "g", " ", "a", " ", "r", "a", "i", "d", " ",
      "o", "n", " ", "t", "h", "e", " ", "D", "o", "r", "t", "m", "u", "n", "d", "-", "E",
      "m", "s", " ", "C", "a", "n", "a", "l", ".">>

V2ChalmersBiography ==
    <<"W", "i", "r", "e", "l", "e", "s", "s", " ", "O", "p", "e", "r", "a", "t", "o", "r",
      " ", "s", "e", "r", "v", "i", "n", "g", " ", "w", "i", "t", "h", " ", "9", "7", " ",
      "S", "q", "u", "a", "d", "r", "o", "n", " ", "R", "A", "F", " ", "P", "a", "t", "h",
      "f", "i", "n", "d", "e", "r", "s", ".", " ", "C", "h", "a", "l", "m", "e", "r", "s",
      " ", "w", "a", "s", " ", "p", "a", "r", "t", " ", "o", "f", " ", "t", "h", "e", " ",
      "c", "r", "e", "w", " ", "o", "f", " ", "L", "a", "n", "c", "a", "s", "t", "e", "r",
      " ", "J", "B", "1", "7", "4", " ", "a", "l", "o", "n", "g", "s", "i", "d", "e", " ",
      "P", "a", "t", "r", "i", "c", "k", " ", "C", "a", "s", "s", "i", "d", "y", ".", " ",
      "H", "e", " ", "w", "a", "s", " ", "r", "e", "s", "p", "o", "n", "s", "i", "b", "l",
      "e", " ", "f", "o", "r", " ", "r", "a", "d", "i", "o", " ", "c", "o", "m", "m", "u",
      "n", "i", "c", "a", "t", "i", "o", "n", "s", " ", "d", "u", "r", "i", "n", "g", " ",
      "p", "a", "t", "h", "f", "i", "n", "d", "i", "n", "g", " ", "o", "p", "e", "r", "a",
      "t", "i", "o", "n", "s", ",", " ", "c", "o", "o", "r", "d", "i", "n", "a", "t", "i",
      "n", "g", " ", "w", "i", "t", "h", " ", "g", "r", "o", "u", "n", "d", " ", "c", "o",
      "n", "t", "r", "o", "l", "l", "e", "r", "s", " ", "a", "n", "d", " ", "o", "t", "h",
      "e", "r", " ", "a", "i", "r", "c", "r", "a", "f", "t", " ", "d", "u", "r", "i", "n",
      "g", " ", "t", "a", "r", "g", "e", "t", " ", "m", "a", "r", "k", "i", "n", "g", " ",
      "m", "i", "s", "s", "i", "o", "n", "s", ".">>

V2ThompsonBiography ==
    <<"N", "a", "v", "i", "g", "a", "t", "o", "r", " ", "w", "i", "t", "h", " ", "9", "7",
      " ", "S", "q", "u", "a", "d", "r", "o", "n", " ", "R", "A", "F", " ", "P", "a", "t",
      "h", "f", "i", "n", "d", "e", "r", "s", ",", " ", "s", "e", "r", "v", "i", "n", "g",
      " ", "a", "b", "o", "a", "r", "d", " ", "L", "a", "n", "c", "a", "s", "t", "e", "r",
      " ", "J", "B", "1", "7", "4", ".", " ", "T", "h", "o", "m", "p", "s", "o", "n", " ",
      "w", "a", "s", " ", "r", "e", "s", "p", "o", "n", "s", "i", "b", "l", "e", " ", "f",
      "o", "r", " ", "p", "l", "o", "t", "t", "i", "n", "g", " ", "c", "o", "u", "r", "s",
      "e", "s", " ", "t", "o", " ", "t", "a", "r", "g", "e", "t", "s", " ", "a", "n", "d",
      " ", "e", "n", "s", "u", "r", "i", "n", "g", " ", "a", "c", "c", "u", "r", "a", "t",
      "e", " ", "n", "a", "v", "i", "g", "a", "t", "i", "o", "n", " ", "d", "u", "r", "i",
      "n", "g", " ", "p", "a", "t", "h", "f", "i", "n", "d", "i", "n", "g", " ", "m", "i",
      "s", "s", "i", "o", "n", "s", ".", " ", "H", "i", "s", " ", "e", "x", "p", "e", "r",
      "t", "i", "s", "e", " ", "w", "a", "s", " ", "c", "r", "u", "c", "i", "a", "l", " ",
      "f", "o", "r", " ", "t", "h", "e", " ", "p", "r", "e", "c", "i", "s", "i", "o", "n",
      " ", "r", "e", "q", "u", "i", "r", "e", "d", " ", "i", "n", " ", "t", "a", "r", "g",
      "e", "t", " ", "m", "a", "r", "k", "i", "n", "g", " ", "o", "p", "e", "r", "a", "t",
      "i", "o", "n", "s", ".">>

V2MitchellBiography ==
    <<"B", "o", "m", "b", " ", "A", "i", "m", "e", "r", " ", "w", "i", "t", "h", " ", "4",
      "4", " ", "S", "q", "u", "a", "d", "r", "o", "n", ",", " ", "s", "p", "e", "c", "i",
      "a", "l", "i", "z", "i", "n", "g", " ", "i", "n", " ", "p", "r", "e", "c", "i", "s",
      "i", "o", "n", " ", "b", "o", "m", "b", "i", "n", "g", " ", "o", "p", "e", "r", "a",
      "t", "i", "o", "n", "s", ".", " ", "M", "i", "t", "c", "h", "e", "l", "l", " ", "c",
      "o", "m", "p", "l", "e", "t", "e", "d", " ", "n", "u", "m", "e", "r", "o", "u", "s",
      " ", "m", "i", "s", "s", "i", "o", "n", "s", " ", "o", "v", "e", "r", " ", "o", "c",
      "c", "u", "p", "i", "e", "d", " ", "E", "u", "r", "o", "p", "e", ",", " ", "d", "e",
      "m", "o", "n", "s", "t", "r", "a", "t", "i", "n", "g", " ", "e", "x", "c", "e", "p",
      "t", "i", "o", "n", "a", "l", " ", "a", "c", "c", "u", "r", "a", "c", "y", " ", "i",
      "n", " ", "t", "a", "r", "g", "e", "t", " ", "i", "d", "e", "n", "t", "i", "f", "i",
      "c", "a", "t", "i", "o", "n", " ", "a", "n", "d", " ", "b", "o", "m", "b", " ", "d",
      "e", "l", "i", "v", "e", "r", "y", ".", " ", "H", "e", " ", "w", "a", "s", " ", "a",
      "w", "a", "r", "d", "e", "d", " ", "t", "h", "e", " ", "D", "i", "s", "t", "i", "n",
      "g", "u", "i", "s", "h", "e", "d", " ", "F", "l", "y", "i", "n", "g", " ", "C", "r",
      "o", "s", "s", " ", "f", "o", "r", " ", "h", "i", "s", " ", "o", "u", "t", "s", "t",
      "a", "n", "d", "i", "n", "g", " ", "s", "e", "r", "v", "i", "c", "e", ".">>

V2DaviesBiography ==
    <<"R", "e", "a", "r", " ", "G", "u", "n", "n", "e", "r", " ", "w", "i", "t", "h", " ",
      "8", "3", " ", "S", "q", "u", "a", "d", "r", "o", "n", ",", " ", "r", "e", "s", "p",
      "o", "n", "s", "i", "b", "l", "e", " ", "f", "o", "r", " ", "d", "e", "f", "e", "n",
      "d", "i", "n", "g", " ", "b", "o", "m", "b", "e", "r", " ", "a", "i", "r", "c", "r",
      "a", "f", "t", " ", "d", "u", "r", "i", "n", "g", " ", "m", "i", "s", "s", "i", "o",
      "n", "s", " ", "o", "v", "e", "r", " ", "e", "n", "e", "m", "y", " ", "t", "e", "r",
      "r", "i", "t", "o", "r", "y", ".", " ", "D", "a", "v", "i", "e", "s", " ", "s", "h",
      "o", "w", "e", "d", " ", "e", "x", "c", "e", "p", "t", "i", "o", "n", "a", "l", " ",
      "c", "o", "u", "r", "a", "g", "e", " ", "d", "u", "r", "i", "n", "g", " ", "n", "i",
      "g", "h", "t", " ", "o", "p", "e", "r", "a", "t", "i", "o", "n", "s", ",", " ", "s",
      "u", "c", "c", "e", "s", "s", "f", "u", "l", "l", "y", " ", "e", "n", "g", "a", "g",
      "i", "n", "g", " ", "e", "n", "e", "m", "y", " ", "f", "i", "g", "h", "t", "e", "r",
      "s", " ", "o", "n", " ", "m", "u", "l", "t", "i", "p", "l", "e", " ", "o", "c", "c",
      "a", "s", "i", "o", "n", "s", ".", " ", "H", "e", " ", "w", "a", "s", " ", "t", "h",
      "e", " ", "y", "o", "u", "n", "g", "e", "s", "t", " ", "m", "e", "m", "b", "e", "r",
      " ", "o", "f", " ", "h", "i", "s", " ", "c", "r", "e", "w", " ", "w", "h", "e", "n",
      " ", "k", "i", "l", "l", "e", "d", " ", "i", "n", " ", "a", "c", "t", "i", "o", "n",
      ".">>

V2WilsonBiography ==
    <<"E", "x", "p", "e", "r", "i", "e", "n", "c", "e", "d", " ", "p", "i", "l", "o", "t",
      " ", "w", "i", "t", "h", " ", "8", "3", " ", "S", "q", "u", "a", "d", "r", "o", "n",
      " ", "w", "h", "o", " ", "s", "e", "r", "v", "e", "d", " ", "a", "s", " ", "b", "o",
      "t", "h", " ", "o", "p", "e", "r", "a", "t", "i", "o", "n", "a", "l", " ", "p", "i",
      "l", "o", "t", " ", "a", "n", "d", " ", "t", "r", "a", "i", "n", "i", "n", "g", " ",
      "i", "n", "s", "t", "r", "u", "c", "t", "o", "r", ".", " ", "W", "i", "l", "s", "o",
      "n", " ", "c", "o", "m", "p", "l", "e", "t", "e", "d", " ", "t", "w", "o", " ", "t",
      "o", "u", "r", "s", " ", "o", "f", " ", "o", "p", "e", "r", "a", "t", "i", "o", "n",
      "s", " ", "b", "e", "f", "o", "r", "e", " ", "v", "o", "l", "u", "n", "t", "e", "e",
      "r", "i", "n", "g", " ", "f", "o", "r", " ", "a", " ", "t", "h", "i", "r", "d", " ",
      "t", "o", "u", "r", ".", " ", "H", "i", "s", " ", "l", "e", "a", "d", "e", "r", "s",
      "h", "i", "p", " ", "a", "n", "d", " ", "f", "l", "y", "i", "n", "g", " ", "s", "k",
      "i", "l", "l", "s", " ", "m", "a", "d", "e", " ", "h", "i", "m", " ", "a", " ", "v",
      "a", "l", "u", "a", "b", "l", "e", " ", "a", "s", "s", "e", "t", " ", "t", "o", " ",
      "t", "h", "e", " ", "s", "q", "u", "a", "d", "r", "o", "n", " ", "d", "u", "r", "i",
      "n", "g", " ", "t", "h", "e", " ", "s", "t", "r", "a", "t", "e", "g", "i", "c", " ",
      "b", "o", "m", "b", "i", "n", "g", " ", "c", "a", "m", "p", "a", "i", "g", "n", ".">>

\* the personnel rows initialize_database of src/app_v2_fixed.py inserts into its
\* own file, which it removes and makes again on every start
V2PersonnelSeed ==
    << [ name |->
             <<"S", "e", "r", "g", "e", "a", "n", "t", " ", "P", "a", "t", "r", "i", "c",
               "k", " ", "C", "a", "s", "s", "i", "d", "y">>,
           service_number |->
             <<"1", "8", "0", "2", "0", "8", "2">>,
           rank |->
             <<"S", "e", "r", "g", "e", "a", "n", "t">>,
           role |->
             <<"F", "l", "i", "g", "h", "t", " ", "E", "n", "g", "i", "n", "e", "e", "r">>,
           squadron |->
             <<"9", "7", " ", "S", "q", "u", "a", "d", "r", "o", "n", " ", "R", "A", "F",
               " ", "P", "a", "t", "h", "f", "i", "n", "d", "e", "r", "s">>,
           biography |-> V2CassidyBiography ],
       [ name |->
             <<"W", "i", "n", "g", " ", "C", "o", "m", "m", "a", "n", "d", "e", "r", " ",
               "G", "u", "y", " ", "G", "i", "b", "s", "o", "n">>,
           service_number |->
             <<"3", "9", "4", "3", "8">>,
           rank |->
             <<"W", "i", "n", "g", " ", "C", "o", "m", "m", "a", "n", "d", "e", "r">>,
           role |->
             <<"P", "i", "l", "o", "t">>,
           squadron |->
             <<"6", "1", "7", " ", "S", "q", "u", "a", "d", "r", "o", "n", " ", "\"", "D",
               "a", "m", " ", "B", "u", "s", "t", "e", "r", "s", "\"">>,
           biography |-> V2GibsonBiography ],
       [ name |->
             <<"F", "l", "i", "g", "h", "t", " ", "L", "i", "e", "u", "t", "e", "n", "a",
               "n", "t", " ", "J", "o", "h", "n", " ", "H", "o", "p", "g", "o", "o", "d">>,
           service_number |->
             <<"6", "7", "8", "9", "0">>,
           rank |->
             <<"F", "l", "i", "g", "h", "t", " ", "L", "i", "e", "u", "t", "e", "n", "a",
               "n", "t">>,
           role |->
             <<"P", "i", "l", "o", "t">>,
           squadron |->
             <<"6", "1", "7", " ", "S", "q", "u", "a", "d", "r", "o", "n", " ", "\"", "D",
               "a", "m", " ", "B", "u", "s", "t", "e", "r", "s", "\"">>,
           biography |-> V2HopgoodBiography ],
       [ name |->
             <<"S", "q", "u", "a", "d", "r", "o", "n", " ", "L", "e", "a", "d", "e", "r",
               " ", "H", "e", "n", "r", "y", " ", "M", "a", "u", "d", "s", "l", "a", "y">>,
           service_number |->
             <<"7", "8", "9", "0", "1">>,
           rank |->
             <<"S", "q", "u", "a", "d", "r", "o", "n", " ", "L", "e", "a", "d", "e", "r">>,
           role |->
             <<"P", "i", "l", "o", "t">>,
           squadron |->
             <<"6", "1", "7", " ", "S", "q", "u", "a", "d", "r", "o", "n", " ", "\"", "D",
               "a", "m", " ", "B", "u", "s", "t", "e", "r", "s", "\"">>,
           biography |-> V2MaudslayBiography ],
       [ name |->
             <<"P", "i", "l", "o", "t", " ", "O", "f", "f", "i", "c", "e", "r", " ", "D",
               "a", "v", "i", "d", " ", "M", "a", "l", "t", "b", "y">>,
           service_number |->
             <<"8", "9", "0", "1", "2">>,
           rank |->
             <<"P", "i", "l", "o", "t", " ", "O", "f", "f", "i", "c", "e", "r">>,
           role |->
             <<"P", "i", "l", "o", "t">>,
           squadron |->
             <<"6", "1", "7", " ", "S", "q", "u", "a", "d", "r", "o", "n", " ", "\"", "D",
               "a", "m", " ", "B", "u", "s", "t", "e", "r", "s", "\"">>,
           biography |-> V2MaltbyBiography ],
       [ name |->
             <<"F", "l", "i", "g", "h", "t", " ", "S", "e", "r", "g", "e", "a", "n", "t",
               " ", "G", "e", "o", "r", "g", "e", " ", "C", "h", "a", "l", "m", "e", "r",
               "s">>,
           service_number |->
             <<"1", "4", "5", "6", "7", "8", "9">>,
           rank |->
             <<"F", "l", "i", "g", "h", "t", " ", "S", "e", "r", "g", "e", "a", "n", "t">>,
           role |->
             <<"W", "i", "r", "e", "l", "e", "s", "s", " ", "O", "p", "e", "r", "a", "t",
               "o", "r">>,
           squadron |->
             <<"9", "7", " ", "S", "q", "u", "a", "d", "r", "o", "n", " ", "R", "A", "F",
               " ", "P", "a", "t", "h", "f", "i", "n", "d", "e", "r", "s">>,
           biography |-> V2ChalmersBiography ],
       [ name |->
             <<"S", "e", "r", "g", "e", "a", "n", "t", " ", "W", "i", "l", "l", "i", "a",
               "m", " ", "T", "h", "o", "m", "p", "s", "o", "n">>,
           service_number |->
             <<"1", "5", "6", "7", "8", "9", "0">>,
           rank |->
             <<"S", "e", "r", "g", "e", "a", "n", "t">>,
           role |->
             <<"N", "a", "v", "i", "g", "a", "t", "o", "r">>,
           squadron |->
             <<"9", "7", " ", "S", "q", "u", "a", "d", "r", "o", "n", " ", "R", "A", "F",
               " ", "P", "a", "t", "h", "f", "i", "n", "d", "e", "r", "s">>,
           biography |-> V2ThompsonBiography ],
       [ name |->
             <<"F", "l", "y", "i", "n", "g", " ", "O", "f", "f", "i", "c", "e", "r", " ",
               "J", "a", "m", "e", "s", " ", "M", "i", "t", "c", "h", "e", "l", "l">>,
           service_number |->
             <<"2", "3", "4", "5", "6", "7", "8">>,
           rank |->
             <<"F", "l", "y", "i", "n", "g", " ", "O", "f", "f", "i", "c", "e", "r">>,
           role |->
             <<"B", "o", "m", "b", " ", "A", "i", "m", "e", "r">>,
           squadron |->
             <<"4", "4", " ", "S", "q", "u", "a", "d", "r", "o", "n">>,
           biography |-> V2MitchellBiography ],
       [ name |->
             <<"S", "e", "r", "g", "e", "a", "n", "t", " ", "R", "o", "b", "e", "r", "t",
               " ", "D", "a", "v", "i", "e", "s">>,
           service_number |->
             <<"1", "6", "7", "8", "9", "0", "1">>,
           rank |->
             <<"S", "e", "r", "g", "e", "a", "n", "t">>,
           role |->
             <<"R", "e", "a", "r", " ", "G", "u", "n", "n", "e", "r">>,
           squadron |->
             <<"8", "3", " ", "S", "q", "u", "a", "d", "r", "o", "n">>,
           biography |-> V2DaviesBiography ],
       [ name |->
             <<"F", "l", "i", "g", "h", "t", " ", "L", "i", "e", "u", "t", "e", "n", "a",
               "n", "t", " ", "C", "h", "a", "r", "l", "e", "s", " ", "W", "i", "l", "s",
               "o", "n">>,
           service_number |->
             <<"3", "4", "5", "6", "7", "8", "9">>,
           rank |->
             <<"F", "l", "i", "g", "h", "t", " ", "L", "i", "e", "u", "t", "e", "n", "a",
               "n", "t">>,
           role |->
             <<"P", "i", "l", "o", "t">>,
           squadron |->
             <<"8", "3", " ", "S", "q", "u", "a", "d", "r", "o", "n">>,
           biography |-> V2WilsonBiography ] >>

(* the store of src/app_advanced_filters.py *)

\* the personnel rows initialize_database of src/app_advanced_filters.py inserts, with
\* the columns build_advanced_search_query reads
AdvPersonnelSeed ==
    << [ service_number |->
             <<"1", "8", "0", "2", "0", "8", "2">>,
           rank |->
             <<"S", "e", "r", "g", "e", "a", "n", "t">>,
           name |->
             <<"P", "a", "t", "r", "i", "c", "k", " ", "C", "a", "s", "s", "i", "d", "y">>,
           role |->
             <<"F", "l", "i", "g", "h", "t", " ", "E", "n", "g", "i", "n", "e", "e", "r">>,
           squadron |->
             <<"9", "7", " ", "S", "q", "u", "a", "d", "r", "o", "n", " ", "R", "A", "F",
               " ", "P", "a", "t", "h", "f", "i", "n", "d", "e", "r", "s">>,
           aircraft_type |->
             <<"A", "v", "r", "o", " ", "L", "a", "n", "c", "a", "s", "t", "e", "r">>,
           date_of_death |->
             <<"1", "9", "4", "4", "-", "0", "9", "-", "2", "2">>,
           age_at_death |-> 22,
           memorial_location |->
             <<"R", "u", "n", "n", "y", "m", "e", "d", "e", " ", "M", "e", "m", "o", "r",
               "i", "a", "l">>,
           awards |->
             <<"N", "o", "n", "e", " ", "r", "e", "c", "o", "r", "d", "e", "d">>,
           base_location |->
             <<"R", "A", "F", " ", "B", "o", "u", "r", "n", ",", " ", "C", "a", "m", "b",
               "r", "i", "d", "g", "e", "s", "h", "i", "r", "e">>,
           mission_count |-> 12,
           service_start_date |->
             <<"1", "9", "4", "3", "-", "0", "8", "-", "1", "5">>,
           service_end_date |->
             <<"1", "9", "4", "4", "-", "0", "9", "-", "2", "2">>,
           biography |->
             <<"S", "e", "r", "g", "e", "a", "n", "t", " ", "P", "a", "t", "r", "i", "c",
               "k", " ", "C", "a", "s", "s", "i", "d", "y", " ", "s", "e", "r", "v", "e",
               "d", " ", "a", "s", " ", "F", "l", "i", "g", "h", "t", " ", "E", "n", "g",
               "i", "n", "e", "e", "r", " ", "w", "i", "t", "h", " ", "9", "7", " ", "S",
               "q", "u", "a", "d", "r", "o", "n", " ", "R", "A", "F", " ", "P", "a", "t",
               "h", "f", "i", "n", "d", "e", "r", "s", ",", " ", "o", "n", "e", " ", "o",
               "f", " ", "t", "h", "e", " ", "e", "l", "i", "t", "e", " ", "t", "a", "r",
               "g", "e", "t", "-", "m", "a", "r", "k", "i", "n", "g", " ", "u", "n", "i",
               "t", "s", " ", "o", "f", " ", "R", "A", "F", " ", "B", "o", "m", "b", "e",
               "r", " ", "C", "o", "m", "m", "a", "n", "d", ".", " ", "H", "e", " ", "f",
               "l", "e", "w", " ", "i", "n", " ", "A", "v", "r", "o", " ", "L", "a", "n",
               "c", "a", "s", "t", "e", "r", " ", "J", "B", "1", "7", "4", ",", " ", "c",
               "a", "l", "l", " ", "s", "i", "g", "n", " ", "O", "F", "-", "S", ",", " ",
               "o", "n", " ", "p", "r", "e", "c", "i", "s", "i", "o", "n", " ", "b", "o",
               "m", "b", "i", "n", "g", " ", "m", "i", "s", "s", "i", "o", "n", "s", " ",
               "o", "v", "e", "r", " ", "o", "c", "c", "u", "p", "i", "e", "d", " ", "E",
               "u", "r", "o", "p", "e", ".", " ", "P", "a", "t", "r", "i", "c", "k", " ",
               "w", "a", "s", " ", "k", "i", "l", "l", "e", "d", " ", "i", "n", " ", "a",
               "c", "t", "i", "o", "n", " ", "o", "n", " ", "S", "e", "p", "t", "e", "m",
               "b", "e", "r", " ", "2", "2", ",", " ", "1", "9", "4", "4", ",", " ", "d",
               "u", "r", "i", "n", "g", " ", "a", " ", "n", "i", "g", "h", "t", " ", "b",
               "o", "m", "b", "i", "n", "g", " ", "m", "i", "s", "s", "i", "o", "n", " ",
               "t", "o", " ", "H", "a", "n", "o", "v", "e", "r", ",", " ", "G", "e", "r",
               "m", "a", "n", "y", ".", " ", "H", "i", "s", " ", "a", "i", "r", "c", "r",
               "a", "f", "t", " ", "w", "a", "s", " ", "s", "h", "o", "t", " ", "d", "o",
               "w", "n", " ", "b", "y", " ", "e", "n", "e", "m", "y", " ", "f", "i", "g",
               "h", "t", "e", "r", "s", ",", " ", "a", "n", "d", " ", "a", "l", "l", " ",
               "s", "e", "v", "e", "n", " ", "c", "r", "e", "w", " ", "m", "e", "m", "b",
               "e", "r", "s", " ", "p", "e", "r", "i", "s", "h", "e", "d", ".", " ", "P",
               "a", "t", "r", "i", "c", "k", " ", "i", "s", " ", "c", "o", "m", "m", "e",
               "m", "o", "r", "a", "t", "e", "d", " ", "o", "n", " ", "P", "a", "n", "e",
               "l", " ", "1", "1", "9", " ", "o", "f", " ", "t", "h", "e", " ", "R", "u",
               "n", "n", "y", "m", "e", "d", "e", " ", "M", "e", "m", "o", "r", "i", "a",
               "l", ",", " ", "w", "h", "i", "c", "h", " ", "h", "o", "n", "o", "r", "s",
               " ", "t", "h", "e", " ", "2", "0", ",", "3", "8", "9", " ", "a", "i", "r",
               "m", "e", "n", " ", "w", "h", "o", " ", "d", "i", "e", "d", " ", "d", "u",
               "r", "i", "n", "g", " ", "W", "W", "I", "I", " ", "a", "n", "d", " ", "h",
               "a", "v", "e", " ", "n", "o", " ", "k", "n", "o", "w", "n", " ", "g", "r",
               "a", "v", "e", ".", " ", "H", "i", "s", " ", "s", "a", "c", "r", "i", "f",
               "i", "c", "e", " ", "r", "e", "p", "r", "e", "s", "e", "n", "t", "s", " ",
               "t", "h", "e", " ", "c", "o", "u", "r", "a", "g", "e", " ", "a", "n", "d",
               " ", "d", "e", "d", "i", "c", "a", "t", "i", "o", "n", " ", "o", "f", " ",
               "t", "h", "e", " ", "y", "o", "u", "n", "g", " ", "m", "e", "n", " ", "w",
               "h", "o", " ", "s", "e", "r", "v", "e", "d", " ", "i", "n", " ", "R", "A",
               "F", " ", "B", "o", "m", "b", "e", "r", " ", "C", "o", "m", "m", "a", "n",
               "d", ".">> ],
       [ service_number |->
             <<"R", "1", "5", "6", "7", "8", "9">>,
           rank |->
             <<"W", "i", "n", "g", " ", "C", "o", "m", "m", "a", "n", "d", "e", "r">>,
           name |->
             <<"G", "u", "y", " ", "G", "i", "b", "s", "o", "n">>,
           role |->
             <<"P", "i", "l", "o", "t">>,
           squadron |->
             <<"6", "1", "7", " ", "S", "q", "u", "a", "d", "r", "o", "n">>,
           aircraft_type |->
             <<"A", "v", "r", "o", " ", "L", "a", "n", "c", "a", "s", "t", "e", "r">>,
           date_of_death |->
             <<"1", "9", "4", "4", "-", "0", "9", "-", "1", "9">>,
           age_at_death |-> 26,
           memorial_location |->
             <<"S", "t", "e", "e", "n", "b", "e", "r", "g", "e", "n", " ", "G", "e", "n",
               "e", "r", "a", "l", " ", "C", "e", "m", "e", "t", "e", "r", "y">>,
           awards |->
             <<"V", "i", "c", "t", "o", "r", "i", "a", " ", "C", "r", "o", "s", "s", ",",
               " ", "D", "i", "s", "t", "i", "n", "g", "u", "i", "s", "h", "e", "d", " ",
               "S", "e", "r", "v", "i", "c", "e", " ", "O", "r", "d", "e", "r", ",", " ",
               "D", "i", "s", "t", "i", "n", "g", "u", "i", "s", "h", "e", "d", " ", "F",
               "l", "y", "i", "n", "g", " ", "C", "r", "o", "s", "s">>,
           base_location |->
             <<"R", "A", "F", " ", "S", "c", "a", "m", "p", "t", "o", "n", ",", " ", "L",
               "i", "n", "c", "o", "l", "n", "s", "h", "i", "r", "e">>,
           mission_count |-> 25,
           service_start_date |->
             <<"1", "9", "4", "0", "-", "0", "1", "-", "0", "1">>,
           service_end_date |->
             <<"1", "9", "4", "4", "-", "0", "9", "-", "1", "9">>,
           biography |->
             <<"W", "i", "n", "g", " ", "C", "o", "m", "m", "a", "n", "d", "e", "r", " ",
               "G", "u", "y", " ", "G", "i", "b", "s", "o", "n", " ", "V", "C", " ", "D",
               "S", "O", " ", "D", "F", "C", " ", "l", "e", "d", " ", "t", "h", "e", " ",
               "f", "a", "m", "o", "u", "s", " ", "D", "a", "m", "b", "u", "s", "t", "e",
               "r", "s", " ", "r", "a", "i", "d", " ", "o", "n", " ", "M", "a", "y", " ",
               "1", "6", "-", "1", "7", ",", " ", "1", "9", "4", "3", ".", " ", "H", "e",
               " ", "w", "a", "s", " ", "a", "w", "a", "r", "d", "e", "d", " ", "t", "h",
               "e", " ", "V", "i", "c", "t", "o", "r", "i", "a", " ", "C", "r", "o", "s",
               "s", " ", "f", "o", "r", " ", "h", "i", "s", " ", "l", "e", "a", "d", "e",
               "r", "s", "h", "i", "p", " ", "d", "u", "r", "i", "n", "g", " ", "O", "p",
               "e", "r", "a", "t", "i", "o", "n", " ", "C", "h", "a", "s", "t", "i", "s",
               "e", ".">> ],
       [ service_number |->
             <<"1", "4", "5", "6", "7", "8", "9">>,
           rank |->
             <<"F", "l", "i", "g", "h", "t", " ", "L", "i", "e", "u", "t", "e", "n", "a",
               "n", "t">>,
           name |->
             <<"J", "o", "h", "n", " ", "S", "m", "i", "t", "h">>,
           role |->
             <<"N", "a", "v", "i", "g", "a", "t", "o", "r">>,
           squadron |->
             <<"8", "3", " ", "S", "q", "u", "a", "d", "r", "o", "n">>,
           aircraft_type |->
             <<"A", "v", "r", "o", " ", "L", "a", "n", "c", "a", "s", "t", "e", "r">>,
           date_of_death |->
             <<"1", "9", "4", "3", "-", "1", "1", "-", "1", "8">>,
           age_at_death |-> 23,
           memorial_location |->
             <<"B", "e", "r", "l", "i", "n", " ", "W", "a", "r", " ", "C", "e", "m", "e",
               "t", "e", "r", "y">>,
           awards |->
             <<"D", "i", "s", "t", "i", "n", "g", "u", "i", "s", "h", "e", "d", " ", "F",
               "l", "y", "i", "n", "g", " ", "C", "r", "o", "s", "s">>,
           base_location |->
             <<"R", "A", "F", " ", "W", "y", "t", "o", "n", ",", " ", "H", "u", "n", "t",
               "i", "n", "g", "d", "o", "n", "s", "h", "i", "r", "e">>,
           mission_count |-> 18,
           service_start_date |->
             <<"1", "9", "4", "2", "-", "0", "3", "-", "0", "1">>,
           service_end_date |->
             <<"1", "9", "4", "3", "-", "1", "1", "-", "1", "8">>,
           biography |->
             <<"F", "l", "i", "g", "h", "t", " ", "L", "i", "e", "u", "t", "e", "n", "a",
               "n", "t", " ", "J", "o", "h", "n", " ", "S", "m", "i", "t", "h", " ", "s",
               "e", "r", "v", "e", "d", " ", "a", "s", " ", "N", "a", "v", "i", "g", "a",
               "t", "o", "r", " ", "w", "i", "t", "h", " ", "8", "3", " ", "S", "q", "u",
               "a", "d", "r", "o", "n", " ", "d", "u", "r", "i", "n", "g", " ", "t", "h",
               "e", " ", "B", "a", "t", "t", "l", "e", " ", "o", "f", " ", "B", "e", "r",
               "l", "i", "n", ".", " ", "S", "h", "o", "t", " ", "d", "o", "w", "n", " ",
               "d", "u", "r", "i", "n", "g", " ", "a", " ", "r", "a", "i", "d", " ", "o",
               "n", " ", "N", "o", "v", "e", "m", "b", "e", "r", " ", "1", "8", ",", " ",
               "1", "9", "4", "3", ".">> ],
       [ service_number |->
             <<"2", "3", "4", "5", "6", "7", "8">>,
           rank |->
             <<"S", "e", "r", "g", "e", "a", "n", "t">>,
           name |->
             <<"W", "i", "l", "l", "i", "a", "m", " ", "J", "o", "n", "e", "s">>,
           role |->
             <<"W", "i", "r", "e", "l", "e", "s", "s", " ", "O", "p", "e", "r", "a", "t",
               "o", "r">>,
           squadron |->
             <<"4", "4", " ", "S", "q", "u", "a", "d", "r", "o", "n">>,
           aircraft_type |->
             <<"A", "v", "r", "o", " ", "L", "a", "n", "c", "a", "s", "t", "e", "r">>,
           date_of_death |->
             <<"1", "9", "4", "4", "-", "0", "3", "-", "3", "0">>,
           age_at_death |-> 22,
           memorial_location |->
             <<"R", "u", "n", "n", "y", "m", "e", "d", "e", " ", "M", "e", "m", "o", "r",
               "i", "a", "l">>,
           awards |->
             <<"N", "o", "n", "e", " ", "r", "e", "c", "o", "r", "d", "e", "d">>,
           base_location |->
             <<"R", "A", "F", " ", "D", "u", "n", "h", "o", "l", "m", "e", " ", "L", "o",
               "d", "g", "e", ",", " ", "L", "i", "n", "c", "o", "l", "n", "s", "h", "i",
               "r", "e">>,
           mission_count |-> 22,
           service_start_date |->
             <<"1", "9", "4", "2", "-", "0", "8", "-", "0", "1">>,
           service_end_date |->
             <<"1", "9", "4", "4", "-", "0", "3", "-", "3", "0">>,
           biography |->
             <<"S", "e", "r", "g", "e", "a", "n", "t", " ", "W", "i", "l", "l", "i", "a",
               "m", " ", "J", "o", "n", "e", "s", " ", "s", "e", "r", "v", "e", "d", " ",
               "a", "s", " ", "W", "i", "r", "e", "l", "e", "s", "s", " ", "O", "p", "e",
               "r", "a", "t", "o", "r", " ", "w", "i", "t", "h", " ", "4", "4", " ", "S",
               "q", "u", "a", "d", "r", "o", "n", ".", " ", "L", "o", "s", "t", " ", "d",
               "u", "r", "i", "n", "g", " ", "t", "h", "e", " ", "N", "u", "r", "e", "m",
               "b", "e", "r", "g", " ", "R", "a", "i", "d", ",", " ", "o", "n", "e", " ",
               "o", "f", " ", "t", "h", "e", " ", "c", "o", "s", "t", "l", "i", "e", "s",
               "t", " ", "o", "p", "e", "r", "a", "t", "i", "o", "n", "s", " ", "f", "o",
               "r", " ", "R", "A", "F", " ", "B", "o", "m", "b", "e", "r", " ", "C", "o",
               "m", "m", "a", "n", "d", ".">> ],
       [ service_number |->
             <<"3", "4", "5", "6", "7", "8", "9">>,
           rank |->
             <<"F", "l", "y", "i", "n", "g", " ", "O", "f", "f", "i", "c", "e", "r">>,
           name |->
             <<"R", "o", "b", "e", "r", "t", " ", "B", "r", "o", "w", "n">>,
           role |->
             <<"B", "o", "m", "b", " ", "A", "i", "m", "e", "r">>,
           squadron |->
             <<"1", "0", "1", " ", "S", "q", "u", "a", "d", "r", "o", "n">>,
           aircraft_type |->
             <<"A", "v", "r", "o", " ", "L", "a", "n", "c", "a", "s", "t", "e", "r">>,
           date_of_death |->
             <<"1", "9", "4", "3", "-", "0", "8", "-", "1", "7">>,
           age_at_death |-> 24,
           memorial_location |->
             <<"H", "a", "m", "b", "u", "r", "g", " ", "C", "e", "m", "e", "t", "e", "r",
               "y">>,
           awards |->
             <<"D", "i", "s", "t", "i", "n", "g", "u", "i", "s", "h", "e", "d", " ", "F",
               "l", "y", "i", "n", "g", " ", "C", "r", "o", "s", "s">>,
           base_location |->
             <<"R", "A", "F", " ", "L", "u", "d", "f", "o", "r", "d", " ", "M", "a", "g",
               "n", "a", ",", " ", "L", "i", "n", "c", "o", "l", "n", "s", "h", "i", "r",
               "e">>,
           mission_count |-> 15,
           service_start_date |->
             <<"1", "9", "4", "1", "-", "0", "6", "-", "0", "1">>,
           service_end_date |->
             <<"1", "9", "4", "3", "-", "0", "8", "-", "1", "7">>,
           biography |->
             <<"F", "l", "y", "i", "n", "g", " ", "O", "f", "f", "i", "c", "e", "r", " ",
               "R", "o", "b", "e", "r", "t", " ", "B", "r", "o", "w", "n", " ", "s", "e",
               "r", "v", "e", "d", " ", "a", "s", " ", "B", "o", "m", "b", " ", "A", "i",
               "m", "e", "r", " ", "w", "i", "t", "h", " ", "1", "0", "1", " ", "S", "q",
               "u", "a", "d", "r", "o", "n", " ", "d", "u", "r", "i", "n", "g", " ", "t",
               "h", "e", " ", "B", "a", "t", "t", "l", "e", " ", "o", "f", " ", "H", "a",
               "m", "b", "u", "r", "g", ".", " ", "H", "i", "s", " ", "p", "r", "e", "c",
               "i", "s", "i", "o", "n", " ", "t", "a", "r", "g", "e", "t", "i", "n", "g",
               " ", "h", "e", "l", "p", "e", "d", " ", "a", "c", "h", "i", "e", "v", "e",
               " ", "m", "i", "s", "s", "i", "o", "n", " ", "o", "b", "j", "e", "c", "t",
               "i", "v", "e", "s", ".">> ],
       [ service_number |->
             <<"4", "5", "6", "7", "8", "9", "0">>,
           rank |->
             <<"S", "e", "r", "g", "e", "a", "n", "t">>,
           name |->
             <<"J", "a", "m", "e", "s", " ", "W", "i", "l", "s", "o", "n">>,
           role |->
             <<"R", "e", "a", "r", " ", "G", "u", "n", "n", "e", "r">>,
           squadron |->
             <<"2", "0", "7", " ", "S", "q", "u", "a", "d", "r", "o", "n">>,
           aircraft_type |->
             <<"A", "v", "r", "o", " ", "L", "a", "n", "c", "a", "s", "t", "e", "r">>,
           date_of_death |->
             <<"1", "9", "4", "4", "-", "0", "6", "-", "0", "6">>,
           age_at_death |-> 22,
           memorial_location |->
             <<"B", "a", "y", "e", "u", "x", " ", "W", "a", "r", " ", "C", "e", "m", "e",
               "t", "e", "r", "y">>,
           awards |->
             <<"N", "o", "n", "e", " ", "r", "e", "c", "o", "r", "d", "e", "d">>,
           base_location |->
             <<"R", "A", "F", " ", "S", "p", "i", "l", "s", "b", "y", ",", " ", "L", "i",
               "n", "c", "o", "l", "n", "s", "h", "i", "r", "e">>,
           mission_count |-> 28,
           service_start_date |->
             <<"1", "9", "4", "2", "-", "0", "1", "-", "1", "5">>,
           service_end_date |->
             <<"1", "9", "4", "4", "-", "0", "6", "-", "0", "6">>,
           biography |->
             <<"S", "e", "r", "g", "e", "a", "n", "t", " ", "J", "a", "m", "e", "s", " ",
               "W", "i", "l", "s", "o", "n", " ", "s", "e", "r", "v", "e", "d", " ", "a",
               "s", " ", "R", "e", "a", "r", " ", "G", "u", "n", "n", "e", "r", " ", "w",
               "i", "t", "h", " ", "2", "0", "7", " ", "S", "q", "u", "a", "d", "r", "o",
               "n", ".", " ", "S", "h", "o", "t", " ", "d", "o", "w", "n", " ", "d", "u",
               "r", "i", "n", "g", " ", "D", "-", "D", "a", "y", " ", "o", "p", "e", "r",
               "a", "t", "i", "o", "n", "s", " ", "w", "h", "i", "l", "e", " ", "s", "u",
               "p", "p", "o", "r", "t", "i", "n", "g", " ", "t", "h", "e", " ", "N", "o",
               "r", "m", "a", "n", "d", "y", " ", "l", "a", "n", "d", "i", "n", "g", "s",
               ".">> ],
       [ service_number |->
             <<"5", "6", "7", "8", "9", "0", "1">>,
           rank |->
             <<"F", "l", "i", "g", "h", "t", " ", "S", "e", "r", "g", "e", "a", "n", "t">>,
           name |->
             <<"T", "h", "o", "m", "a", "s", " ", "D", "a", "v", "i", "s">>,
           role |->
             <<"M", "i", "d", "-", "U", "p", "p", "e", "r", " ", "G", "u", "n", "n", "e",
               "r">>,
           squadron |->
             <<"4", "6", "0", " ", "S", "q", "u", "a", "d", "r", "o", "n", " ", "R", "A",
               "A", "F">>,
           aircraft_type |->
             <<"A", "v", "r", "o", " ", "L", "a", "n", "c", "a", "s", "t", "e", "r">>,
           date_of_death |->
             <<"1", "9", "4", "3", "-", "1", "2", "-", "0", "2">>,
           age_at_death |-> 23,
           memorial_location |->
             <<"B", "e", "r", "l", "i", "n", " ", "W", "a", "r", " ", "C", "e", "m", "e",
               "t", "e", "r", "y">>,
           awards |->
             <<"D", "i", "s", "t", "i", "n", "g", "u", "i", "s", "h", "e", "d", " ", "F",
               "l", "y", "i", "n", "g", " ", "M", "e", "d", "a", "l">>,
           base_location |->
             <<"R", "A", "F", " ", "B", "i", "n", "b", "r", "o", "o", "k", ",", " ", "L",
               "i", "n", "c", "o", "l", "n", "s", "h", "i", "r", "e">>,
           mission_count |-> 20,
           service_start_date |->
             <<"1", "9", "4", "2", "-", "0", "5", "-", "0", "1">>,
           service_end_date |->
             <<"1", "9", "4", "3", "-", "1", "2", "-", "0", "2">>,
           biography |->
             <<"F", "l", "i", "g", "h", "t", " ", "S", "e", "r", "g", "e", "a", "n", "t",
               " ", "T", "h", "o", "m", "a", "s", " ", "D", "a", "v", "i", "s", " ", "s",
               "e", "r", "v", "e", "d", " ", "w", "i", "t", "h", " ", "4", "6", "0", " ",
               "S", "q", "u", "a", "d", "r", "o", "n", " ", "R", "A", "A", "F", " ", "a",
               "s", " ", "M", "i", "d", "-", "U", "p", "p", "e", "r", " ", "G", "u", "n",
               "n", "e", "r", ".", " ", "L", "o", "s", "t", " ", "d", "u", "r", "i", "n",
               "g", " ", "a", " ", "n", "i", "g", "h", "t", " ", "r", "a", "i", "d", " ",
               "o", "n", " ", "B", "e", "r", "l", "i", "n", " ", "i", "n", " ", "D", "e",
               "c", "e", "m", "b", "e", "r", " ", "1", "9", "4", "3", ".">> ],
       [ service_number |->
             <<"6", "7", "8", "9", "0", "1", "2">>,
           rank |->
             <<"P", "i", "l", "o", "t", " ", "O", "f", "f", "i", "c", "e", "r">>,
           name |->
             <<"C", "h", "a", "r", "l", "e", "s", " ", "T", "a", "y", "l", "o", "r">>,
           role |->
             <<"P", "i", "l", "o", "t">>,
           squadron |->
             <<"5", "0", " ", "S", "q", "u", "a", "d", "r", "o", "n">>,
           aircraft_type |->
             <<"A", "v", "r", "o", " ", "L", "a", "n", "c", "a", "s", "t", "e", "r">>,
           date_of_death |->
             <<"1", "9", "4", "4", "-", "0", "1", "-", "2", "0">>,
           age_at_death |-> 22,
           memorial_location |->
             <<"R", "u", "n", "n", "y", "m", "e", "d", "e", " ", "M", "e", "m", "o", "r",
               "i", "a", "l">>,
           awards |->
             <<"N", "o", "n", "e", " ", "r", "e", "c", "o", "r", "d", "e", "d">>,
           base_location |->
             <<"R", "A", "F", " ", "S", "k", "e", "l", "l", "i", "n", "g", "t", "h", "o",
               "r", "p", "e", ",", " ", "L", "i", "n", "c", "o", "l", "n", "s", "h", "i",
               "r", "e">>,
           mission_count |-> 16,
           service_start_date |->
             <<"1", "9", "4", "2", "-", "0", "9", "-", "0", "1">>,
           service_end_date |->
             <<"1", "9", "4", "4", "-", "0", "1", "-", "2", "0">>,
           biography |->
             <<"P", "i", "l", "o", "t", " ", "O", "f", "f", "i", "c", "e", "r", " ", "C",
               "h", "a", "r", "l", "e", "s", " ", "T", "a", "y", "l", "o", "r", " ", "s",
               "e", "r", "v", "e", "d", " ", "a", "s", " ", "P", "i", "l", "o", "t", " ",
               "w", "i", "t", "h", " ", "5", "0", " ", "S", "q", "u", "a", "d", "r", "o",
               "n", ".", " ", "S", "h", "o", "t", " ", "d", "o", "w", "n", " ", "d", "u",
               "r", "i", "n", "g", " ", "a", " ", "r", "a", "i", "d", " ", "o", "n", " ",
               "B", "e", "r", "l", "i", "n", " ", "i", "n", " ", "J", "a", "n", "u", "a",
               "r", "y", " ", "1", "9", "4", "4", ".">> ],
       [ service_number |->
             <<"7", "8", "9", "0", "1", "2", "3">>,
           rank |->
             <<"S", "e", "r", "g", "e", "a", "n", "t">>,
           name |->
             <<"G", "e", "o", "r", "g", "e", " ", "M", "i", "l", "l", "e", "r">>,
           role |->
             <<"F", "l", "i", "g", "h", "t", " ", "E", "n", "g", "i", "n", "e", "e", "r">>,
           squadron |->
             <<"1", "6", "6", " ", "S", "q", "u", "a", "d", "r", "o", "n">>,
           aircraft_type |->
             <<"A", "v", "r", "o", " ", "L", "a", "n", "c", "a", "s", "t", "e", "r">>,
           date_of_death |->
             <<"1", "9", "4", "4", "-", "0", "8", "-", "2", "5">>,
           age_at_death |-> 21,
           memorial_location |->
             <<"R", "u", "n", "n", "y", "m", "e", "d", "e", " ", "M", "e", "m", "o", "r",
               "i", "a", "l">>,
           awards |->
             <<"N", "o", "n", "e", " ", "r", "e", "c", "o", "r", "d", "e", "d">>,
           base_location |->
             <<"R", "A", "F", " ", "K", "i", "r", "m", "i", "n", "g", "t", "o", "n", ",",
               " ", "L", "i", "n", "c", "o", "l", "n", "s", "h", "i", "r", "e">>,
           mission_count |-> 14,
           service_start_date |->
             <<"1", "9", "4", "3", "-", "0", "1", "-", "0", "1">>,
           service_end_date |->
             <<"1", "9", "4", "4", "-", "0", "8", "-", "2", "5">>,
           biography |->
             <<"S", "e", "r", "g", "e", "a", "n", "t", " ", "G", "e", "o", "r", "g", "e",
               " ", "M", "i", "l", "l", "e", "r", " ", "s", "e", "r", "v", "e", "d", " ",
               "a", "s", " ", "F", "l", "i", "g", "h", "t", " ", "E", "n", "g", "i", "n",
               "e", "e", "r", " ", "w", "i", "t", "h", " ", "1", "6", "6", " ", "S", "q",
               "u", "a", "d", "r", "o", "n", ".", " ", "O", "n", "e", " ", "o", "f", " ",
               "t", "h", "e", " ", "y", "o", "u", "n", "g", "e", "s", "t", " ", "c", "r",
               "e", "w", " ", "m", "e", "m", "b", "e", "r", "s", ",", " ", "l", "o", "s",
               "t", " ", "d", "u", "r", "i", "n", "g", " ", "o", "p", "e", "r", "a", "t",
               "i", "o", "n", "s", " ", "o", "v", "e", "r", " ", "G", "e", "r", "m", "a",
               "n", "y", ".">> ],
       [ service_number |->
             <<"8", "9", "0", "1", "2", "3", "4">>,
           rank |->
             <<"F", "l", "i", "g", "h", "t", " ", "L", "i", "e", "u", "t", "e", "n", "a",
               "n", "t">>,
           name |->
             <<"E", "d", "w", "a", "r", "d", " ", "A", "n", "d", "e", "r", "s", "o", "n">>,
           role |->
             <<"N", "a", "v", "i", "g", "a", "t", "o", "r">>,
           squadron |->
             <<"3", "5", " ", "S", "q", "u", "a", "d", "r", "o", "n">>,
           aircraft_type |->
             <<"A", "v", "r", "o", " ", "L", "a", "n", "c", "a", "s", "t", "e", "r">>,
           date_of_death |->
             <<"1", "9", "4", "3", "-", "1", "0", "-", "0", "7">>,
           age_at_death |-> 25,
           memorial_location |->
             <<"D", "u", "r", "n", "b", "a", "c", "h", " ", "W", "a", "r", " ", "C", "e",
               "m", "e", "t", "e", "r", "y">>,
           awards |->
             <<"D", "i", "s", "t", "i", "n", "g", "u", "i", "s", "h", "e", "d", " ", "F",
               "l", "y", "i", "n", "g", " ", "C", "r", "o", "s", "s">>,
           base_location |->
             <<"R", "A", "F", " ", "G", "r", "a", "v", "e", "l", "e", "y", ",", " ", "H",
               "u", "n", "t", "i", "n", "g", "d", "o", "n", "s", "h", "i", "r", "e">>,
           mission_count |-> 19,
           service_start_date |->
             <<"1", "9", "4", "1", "-", "0", "3", "-", "0", "1">>,
           service_end_date |->
             <<"1", "9", "4", "3", "-", "1", "0", "-", "0", "7">>,
           biography |->
             <<"F", "l", "i", "g", "h", "t", " ", "L", "i", "e", "u", "t", "e", "n", "a",
               "n", "t", " ", "E", "d", "w", "a", "r", "d", " ", "A", "n", "d", "e", "r",
               "s", "o", "n", " ", "s", "e", "r", "v", "e", "d", " ", "a", "s", " ", "N",
               "a", "v", "i", "g", "a", "t", "o", "r", " ", "w", "i", "t", "h", " ", "3",
               "5", " ", "S", "q", "u", "a", "d", "r", "o", "n", " ", "d", "u", "r", "i",
               "n", "g", " ", "t", "h", "e", " ", "e", "a", "r", "l", "y", " ", "s", "t",
               "a", "g", "e", "s", " ", "o", "f", " ", "t", "h", "e", " ", "s", "t", "r",
               "a", "t", "e", "g", "i", "c", " ", "b", "o", "m", "b", "i", "n", "g", " ",
               "c", "a", "m", "p", "a", "i", "g", "n", ".">> ] >>

\* the squadrons rows initialize_database of src/app_advanced_filters.py inserts
SquadronSeed ==
    << [ squadron_number |->
             <<"9", "7">>,
           base_location |->
             <<"R", "A", "F", " ", "B", "o", "u", "r", "n", ",", " ", "C", "a", "m", "b",
               "r", "i", "d", "g", "e", "s", "h", "i", "r", "e">>,
           group_number |->
             <<"8", " ", "G", "r", "o", "u", "p">> ],
       [ squadron_number |->
             <<"6", "1", "7">>,
           base_location |->
             <<"R", "A", "F", " ", "S", "c", "a", "m", "p", "t", "o", "n", ",", " ", "L",
               "i", "n", "c", "o", "l", "n", "s", "h", "i", "r", "e">>,
           group_number |->
             <<"5", " ", "G", "r", "o", "u", "p">> ],
       [ squadron_number |->
             <<"8", "3">>,
           base_location |->
             <<"R", "A", "F", " ", "W", "y", "t", "o", "n", ",", " ", "H", "u", "n", "t",
               "i", "n", "g", "d", "o", "n", "s", "h", "i", "r", "e">>,
           group_number |->
             <<"8", " ", "G", "r", "o", "u", "p">> ],
       [ squadron_number |->
             <<"4", "4">>,
           base_location |->
             <<"R", "A", "F", " ", "D", "u", "n", "h", "o", "l", "m", "e", " ", "L", "o",
               "d", "g", "e", ",", " ", "L", "i", "n", "c", "o", "l", "n", "s", "h", "i",
               "r", "e">>,
           group_number |->
             <<"5", " ", "G", "r", "o", "u", "p">> ],
       [ squadron_number |->
             <<"1", "0", "1">>,
           base_location |->
             <<"R", "A", "F", " ", "L", "u", "d", "f", "o", "r", "d", " ", "M", "a", "g",
               "n", "a", ",", " ", "L", "i", "n", "c", "o", "l", "n", "s", "h", "i", "r",
               "e">>,
           group_number |->
             <<"1", " ", "G", "r", "o", "u", "p">> ],
       [ squadron_number |->
             <<"4", "6", "0">>,
           base_location |->
             <<"R", "A", "F", " ", "B", "i", "n", "b", "r", "o", "o", "k", ",", " ", "L",
               "i", "n", "c", "o", "l", "n", "s", "h", "i", "r", "e">>,
           group_number |->
             <<"1", " ", "G", "r", "o", "u", "p">> ] >>

RECURSIVE LikeFrom(_, _, _, _)
\* the characters of s from the j-th on match the pattern from its i-th character
\* on: % stands for any run of characters, _ for any one character, and no
\* character escapes them
LikeFrom(pattern, i, s, j) ==
    IF i > Len(pattern) THEN j > Len(s)
    ELSE IF pattern[i] = "%"
    THEN \E k \in j..(Len(s) + 1) : LikeFrom(pattern, i + 1, s, k)
    ELSE /\ j <= Len(s)
         /\ pattern[i] = "_" \/ pattern[i] = s[j]
         /\ LikeFrom(pattern, i + 1, s, j + 1)

\* s LIKE pattern; SQLite compares ASCII letters case-insensitively
LikeMatch(pattern, s) ==
    \E p \in {Lower(pattern)}, t \in {Lower(s)} : LikeFrom(p, 1, t, 1)

\* field LIKE f'%{q}%'
Like(field, q) == LikeMatch(<<"%">> \o q \o <<"%">>, field)

ContextLimit == 3

\* LIMIT n
Limit(rows, n) == SubSeq(rows, 1, Min(n, Len(rows)))

PersonnelMatches(r, q) ==
    Like(r.name, q) \/ Like(r.service_number, q) \/ Like(r.biography, q)

AircraftMatches(r, q) ==
    Like(r.serial_number, q) \/ Like(r.service_history, q)

personnel_results(q) ==
    Limit(SelectSeq(personnel_table, LAMBDA r : PersonnelMatches(r, q)), ContextLimit)

aircraft_results(q) ==
    Limit(SelectSeq(aircraft_table, LAMBDA r : AircraftMatches(r, q)), ContextLimit)

RECURSIVE PersonnelLines(_)
PersonnelLines(rows) ==
    IF rows = <<>> THEN <<>>
    ELSE (<<"- ">> \o Head(rows).name \o <<" (">> \o Head(rows).service_number
          \o <<"): ">> \o Head(rows).rank \o <<" ">> \o Head(rows).role
          \o <<", ">> \o Head(rows).squadron \o <<"\n">>)
         \o PersonnelLines(Tail(rows))

RECURSIVE AircraftLines(_)
AircraftLines(rows) ==
    IF rows = <<>> THEN <<>>
    ELSE (<<"- ">> \o Head(rows).serial_number
          \o <<" (">> \o Head(rows).aircraft_type \o <<"): ">> \o Head(rows).squadron
          \o <<" - ">>
          \o Head(rows).service_history \o <<"\n">>)
         \o AircraftLines(Tail(rows))

\* what the store does during one context query: answers, or raises
StoreOutcomes == { [ok |-> TRUE], [ok |-> FALSE, error |-> "unable to open database file"] }

\* variant of _get_database_context whose queries carry no LIMIT
get_database_context_unlimited(q, store) ==
    IF ~store.ok
    THEN <<"Database context unavailable: ", store.error>>
    ELSE <<"Database Context:\n">>
         \o (IF personnel_results(q) # <<>>
             THEN <<"\nPersonnel Records:\n">>
                  \o PersonnelLines(SelectSeq(personnel_table,
                                              LAMBDA r : PersonnelMatches(r, q)))
             ELSE <<>>)
         \o (IF aircraft_results(q) # <<>>
             THEN <<"\nAircraft Records:\n">>
                  \o AircraftLines(SelectSeq(aircraft_table,
                                             LAMBDA r : AircraftMatches(r, q)))
             ELSE <<>>)

get_database_context(q, store) ==
    IF ~store.ok
    THEN <<"Database context unavailable: ", store.error>>
    ELSE <<"Database Context:\n">>
         \o (IF personnel_results(q) # <<>>
             THEN <<"\nPersonnel Records:\n">> \o PersonnelLines(personnel_results(q))
             ELSE <<>>)
         \o (IF aircraft_results(q) # <<>>
             THEN <<"\nAircraft Records:\n">> \o AircraftLines(aircraft_results(q))
             ELSE <<>>)

-----------------------------------------------------------------------------
(* MultiAgentResearchSystem._synthesize_results *)

RECURSIVE SumConfidence(_)
\* sum(r.confidence for r in responses)
SumConfidence(responses) ==
    IF responses = <<>> THEN 0
    ELSE Head(responses).confidence + SumConfidence(Tail(responses))

NoAnalysisText == <<"No analysis available - please check system configuration.">>

EmptyMemorialContext == "This system honors the memory of RAF Bomber Command personnel."

MemorialContext ==
    "This research honors the memory of those who served with RAF Bomber Command during World War II."

\* variant of _synthesize_results that sums the confidences without dividing
synthesize_results_sum(q, responses) ==
    IF responses = <<>>
    THEN [ query |-> q,
           agents_used |-> <<>>,
           primary_analysis |-> NoAnalysisText,
           supporting_evidence |-> <<>>,
           confidence_score |-> 0,
           memorial_context |-> EmptyMemorialContext ]
    ELSE [ query |-> q,
           agents_used |-> [i \in 1..Len(responses) |-> responses[i].agent_name],
           primary_analysis |-> responses[1].analysis,
           supporting_evidence |-> [i \in 1..(Len(responses) - 1) |-> responses[i + 1].analysis],
           confidence_score |-> SumConfidence(responses),
           memorial_context |-> MemorialContext ]

\* variant of _synthesize_results whose degraded output keeps an empty primary analysis
synthesize_results_empty_primary(q, responses) ==
    IF responses = <<>>
    THEN [ query |-> q,
           agents_used |-> <<>>,
           primary_analysis |-> <<>>,
           supporting_evidence |-> <<>>,
           confidence_score |-> 0,
           memorial_context |-> EmptyMemorialContext ]
    ELSE [ query |-> q,
           agents_used |-> [i \in 1..Len(responses) |-> responses[i].agent_name],
           primary_analysis |-> responses[1].analysis,
           supporting_evidence |-> [i \in 1..(Len(responses) - 1) |-> responses[i + 1].analysis],
           confidence_score |-> SumConfidence(responses) \div Len(responses),
           memorial_context |-> MemorialContext ]

\* variant of _synthesize_results whose evidence is taken from responses, not responses[1:]
synthesize_results_all_evidence(q, responses) ==
    IF responses = <<>>
    THEN [ query |-> q,
           agents_used |-> <<>>,
           primary_analysis |-> NoAnalysisText,
           supporting_evidence |-> <<>>,
           confidence_score |-> 0,
           memorial_context |-> EmptyMemorialContext ]
    ELSE [ query |-> q,
           agents_used |-> [i \in 1..Len(responses) |-> responses[i].agent_name],
           primary_analysis |-> responses[1].analysis,
           supporting_evidence |-> [i \in 1..Len(responses) |-> responses[i].analysis],
           confidence_score |-> SumConfidence(responses) \div Len(responses),
           memorial_context |-> MemorialContext ]

synthesize_results(q, responses) ==
    IF responses = <<>>
    THEN [ query |-> q,
           agents_used |-> <<>>,
           primary_analysis |-> NoAnalysisText,
           supporting_evidence |-> <<>>,
           confidence_score |-> 0,
           memorial_context |-> EmptyMemorialContext ]
    ELSE [ query |-> q,
           agents_used |-> [i \in 1..Len(responses) |-> responses[i].agent_name],
           primary_analysis |-> responses[1].analysis,
           supporting_evidence |-> [i \in 1..(Len(responses) - 1) |-> responses[i + 1].analysis],
           confidence_score |-> SumConfidence(responses) \div Len(responses),
           memorial_context |-> MemorialContext ]

-----------------------------------------------------------------------------
(* MultiAgentResearchSystem.research and the endpoint multi_agent_research *)

NoResult == [kind |-> "none"]

NoAnswer == [status |-> 0]

\* no search call has been made
NoSearch == [site |-> "none"]

\* variant of the loop's turn that leaves out the response of a failed specialist
research_step_drop_failed(agent_key, q, context, outcome, responses) ==
    IF agent_key \notin DOMAIN Agents
    THEN [called |-> FALSE, raised |-> FALSE, responses |-> responses]
    ELSE LET r == analyze(agent_key, q, context, outcome)
         IN  [ called |-> r.called,
               raised |-> r.raised,
               responses |-> IF r.raised \/ (r.called /\ outcome.kind = "raise")
                             THEN responses ELSE Append(responses, r.response) ]

\* one turn of the loop over agents_to_use: the responses collected so far, whether
\* the backend was called, and whether an exception leaves research()
research_step(agent_key, q, context, outcome, responses) ==
    IF agent_key \notin DOMAIN Agents
    THEN [called |-> FALSE, raised |-> FALSE, responses |-> responses]
    ELSE LET r == analyze(agent_key, q, context, outcome)
         IN  [ called |-> r.called,
               raised |-> r.raised,
               responses |-> IF r.raised THEN responses ELSE Append(responses, r.response) ]

\* the endpoint's JSON payload for a ResearchResult
Payload(r) ==
    [ query |-> r.query,
      agents_used |-> r.agents_used,
      analysis |-> r.primary_analysis,
      supporting_evidence |-> r.supporting_evidence,
      confidence_score |-> r.confidence_score,
      memorial_context |-> r.memorial_context ]

ServerError == [status |-> 500, error |-> "Research system error"]

ClientError == [status |-> 400, error |-> "Query is required"]

\* the clients of the rate limiter: values of request.remote_addr
Clients == {"10.0.0.1", "10.0.0.2"}

\* the requests that may be inside rate_limit at one time
Threads == {1, 2}

\* a request that is not inside rate_limit
NoThread == [at |-> "out", client_ip |-> "", now |-> 0, cleaned |-> <<>>]

\* rate_limit has answered nothing yet
NoRate == [client_ip |-> "", status |-> 0, now |-> 0,
           before |-> [c \in Clients |-> <<>>]]

\* the store of src/app_advanced_filters.py after initialize_database
AdvIdle ==
    /\ adv_personnel_table = AdvPersonnelSeed
    /\ squadrons_table = SquadronSeed

\* the module-level state of rate_limit after import: request_counts is an empty
\* defaultdict(list)
RateIdle ==
    /\ request_counts = [c \in Clients |-> <<>>]
    /\ now = 0
    /\ admitted = [c \in Clients |-> <<>>]
    /\ threads = [t \in Threads |-> NoThread]
    /\ rate = NoRate

Init ==
    /\ client_configured \in BOOLEAN
    /\ pc = "idle"
    /\ query = <<>>
    /\ agents_to_use = <<>>
    /\ db_context = <<>>
    /\ next_agent = 1
    /\ agent_responses = <<>>
    /\ calls = <<>>
    /\ result = NoResult
    /\ http = NoAnswer
    /\ personnel_table = PersonnelTable
    /\ aircraft_table = AircraftTable
    /\ v2_personnel_table = V2PersonnelSeed
    /\ store_failed = FALSE
    /\ search = NoSearch
    /\ AdvIdle
    /\ RateIdle

\* multi_agent_research up to the call of research(): a missing body makes data.get
\* raise, which the endpoint's except turns into a 500; an empty query is a 400
ReceiveRequest ==
    /\ pc = "idle"
    /\ \E body \in Bodies :
        IF ~body.present
        THEN /\ http' = ServerError
             /\ pc' = "done"
             /\ UNCHANGED query
        ELSE IF body.query = <<>>
        THEN /\ http' = ClientError
             /\ pc' = "done"
             /\ UNCHANGED query
        ELSE /\ query' = body.query
             /\ pc' = "select"
             /\ UNCHANGED http
    /\ UNCHANGED <<client_configured, agents_to_use, db_context, next_agent,
                   agent_responses, calls, result>>
    /\ UNCHANGED <<personnel_table, aircraft_table, v2_personnel_table, store_failed,
                   search>>
    /\ UNCHANGED <<adv_personnel_table, squadrons_table>>
    /\ UNCHANGED <<request_counts, now, admitted, threads, rate>>

SelectAgents ==
    /\ pc = "select"
    /\ agents_to_use' = select_agents(query)
    /\ pc' = "context"
    /\ UNCHANGED <<client_configured, query, db_context, next_agent, agent_responses,
                   calls, result, http>>
    /\ UNCHANGED <<personnel_table, aircraft_table, v2_personnel_table, store_failed,
                   search>>
    /\ UNCHANGED <<adv_personnel_table, squadrons_table>>
    /\ UNCHANGED <<request_counts, now, admitted, threads, rate>>

GetDatabaseContext ==
    /\ pc = "context"
    /\ \E store \in StoreOutcomes :
        /\ db_context' = get_database_context(query, store)
        /\ store_failed' = ~store.ok
    /\ agent_responses' = <<>>
    /\ next_agent' = 1
    /\ pc' = IF agents_to_use = <<>> THEN "synthesize" ELSE "dispatch"
    /\ UNCHANGED <<client_configured, query, agents_to_use, calls, result, http>>
    /\ UNCHANGED <<personnel_table, aircraft_table, v2_personnel_table, search>>
    /\ UNCHANGED <<adv_personnel_table, squadrons_table>>
    /\ UNCHANGED <<request_counts, now, admitted, threads, rate>>

Dispatch ==
    /\ pc = "dispatch"
    /\ next_agent <= Len(agents_to_use)
    /\ \E outcome \in BackendOutcomes :
        LET agent_key == agents_to_use[next_agent]
            s == research_step(agent_key, query, db_context, outcome, agent_responses)
        IN  /\ calls' = IF s.called
                        THEN Append(calls, [agent |-> agent_key, outcome |-> outcome])
                        ELSE calls
            /\ IF s.raised
               THEN /\ http' = ServerError
                    /\ pc' = "done"
                    /\ UNCHANGED <<agent_responses, next_agent>>
               ELSE /\ agent_responses' = s.responses
                    /\ next_agent' = next_agent + 1
                    /\ pc' = IF next_agent = Len(agents_to_use) THEN "synthesize" ELSE "dispatch"
                    /\ UNCHANGED http
    /\ UNCHANGED <<client_configured, query, agents_to_use, db_context, result>>
    /\ UNCHANGED <<personnel_table, aircraft_table, v2_personnel_table, store_failed,
                   search>>
    /\ UNCHANGED <<adv_personnel_table, squadrons_table>>
    /\ UNCHANGED <<request_counts, now, admitted, threads, rate>>

Synthesize ==
    /\ pc = "synthesize"
    /\ result' = synthesize_results(query, agent_responses)
    /\ pc' = "respond"
    /\ UNCHANGED <<client_configured, query, agents_to_use, db_context, next_agent,
                   agent_responses, calls, http>>
    /\ UNCHANGED <<personnel_table, aircraft_table, v2_personnel_table, store_failed,
                   search>>
    /\ UNCHANGED <<adv_personnel_table, squadrons_table>>
    /\ UNCHANGED <<request_counts, now, admitted, threads, rate>>

Respond ==
    /\ pc = "respond"
    /\ http' = [status |-> 200, payload |-> Payload(result)]
    /\ pc' = "done"
    /\ UNCHANGED <<client_configured, query, agents_to_use, db_context, next_agent,
                   agent_responses, calls, result>>
    /\ UNCHANGED <<personnel_table, aircraft_table, v2_personnel_table, store_failed,
                   search>>
    /\ UNCHANGED <<adv_personnel_table, squadrons_table>>
    /\ UNCHANGED <<request_counts, now, admitted, threads, rate>>

\* the request is over; the next one starts from a fresh ResearchQuery
Finish ==
    /\ pc = "done"
    /\ pc' = "idle"
    /\ query' = <<>>
    /\ agents_to_use' = <<>>
    /\ db_context' = <<>>
    /\ next_agent' = 1
    /\ agent_responses' = <<>>
    /\ calls' = <<>>
    /\ result' = NoResult
    /\ http' = NoAnswer
    /\ store_failed' = FALSE
    /\ search' = NoSearch
    /\ UNCHANGED <<client_configured, personnel_table, aircraft_table, v2_personnel_table>>
    /\ UNCHANGED <<adv_personnel_table, squadrons_table>>
    /\ UNCHANGED <<request_counts, now, admitted, threads, rate>>

Next ==
    \/ ReceiveRequest
    \/ SelectAgents
    \/ GetDatabaseContext
    \/ Dispatch
    \/ Synthesize
    \/ Respond
    \/ Finish

Spec == Init /\ [][Next]_vars

-----------------------------------------------------------------------------
(* The synthesizer on its own: _synthesize_results applied to every list of at *)
(* most MaxSynthLen responses that analyze can return, the empty list included *)

SeqsUpTo(S, n) == UNION {[1..k -> S] : k \in 0..n}

AnalyzeResponses(q) ==
    { analyze(k, q, <<>>, o).response : k \in DOMAIN Agents, o \in BackendOutcomes }

SynthInit ==
    /\ client_configured \in BOOLEAN
    /\ pc = "synthesize"
    /\ query \in QueriesOfLen(1)
    /\ agents_to_use = <<>>
    /\ db_context = <<>>
    /\ next_agent = 1
    /\ agent_responses \in SeqsUpTo(AnalyzeResponses(query), MaxSynthLen)
    /\ calls = <<>>
    /\ result = NoResult
    /\ http = NoAnswer
    /\ personnel_table = PersonnelTable
    /\ aircraft_table = AircraftTable
    /\ v2_personnel_table = V2PersonnelSeed
    /\ store_failed = FALSE
    /\ search = NoSearch
    /\ AdvIdle
    /\ RateIdle

SynthNext == Synthesize

SynthSpec == SynthInit /\ [][SynthNext]_vars

-----------------------------------------------------------------------------
(* The context gatherer on its own: _get_database_context applied to the stores *)
(* the file /tmp/raf_bomber_command.db can hold. The table made by this module  *)
(* has a UNIQUE service_number, so INSERT OR REPLACE keeps one row; the table   *)
(* made by src/app.py has none, and every run of its initialize_database adds   *)
(* its rows again.                                                              *)

MaxInits == 5

RECURSIVE Repeat(_, _)
Repeat(rows, n) == IF n = 0 THEN <<>> ELSE rows \o Repeat(rows, n - 1)

ContextStores ==
    { [personnel |-> PersonnelTable, aircraft |-> AircraftTable] }
    \cup { [personnel |-> Repeat(AppPersonnelSeed, k),
            aircraft |-> Repeat(AppAircraftSeed, k)] : k \in 1..MaxInits }

ContextQueries ==
    { <<"S", "e", "r", "g", "e", "a", "n", "t">>,
      <<"p", "a", "t", "h", "f", "i", "n", "d", "e", "r", "s">>,
      <<"c", "a", "s", "s", "i", "d", "y">>,
      <<"s", "e", "r", "v", "i", "c", "e", " ", "l", "i", "f", "e">>,
      <<"j", "b", "1", "7", "4">>,
      <<"x", "y", "z">>,
      <<"6", "1", "7">>,
      <<"h", "a", "n", "o", "v", "e", "r">>,
      <<"N", "a", "v", "i", "g", "a", "t", "o", "r">>,
      <<"1", "9", "4", "3">> }

ContextInit ==
    /\ client_configured \in BOOLEAN
    /\ pc = "context"
    /\ query \in ContextQueries
    /\ agents_to_use = select_agents(query)
    /\ db_context = <<>>
    /\ next_agent = 1
    /\ agent_responses = <<>>
    /\ calls = <<>>
    /\ result = NoResult
    /\ http = NoAnswer
    /\ \E store \in ContextStores :
        /\ personnel_table = store.personnel
        /\ aircraft_table = store.aircraft
    /\ v2_personnel_table = V2PersonnelSeed
    /\ store_failed = FALSE
    /\ search = NoSearch
    /\ AdvIdle
    /\ RateIdle

ContextNext == GetDatabaseContext

ContextSpec == ContextInit /\ [][ContextNext]_vars

-----------------------------------------------------------------------------
(* src/app.py: DatabaseManager.search_personnel and search_aircraft and the    *)
(* two endpoints that call them                                                *)

\* the characters of the stored texts in the order of their codes, which is the
\* order of SQLite's BINARY collation
Ascii ==
    <<" ", "\"", "%", "'", "(", ")", "*", ",", "-", ".", "/",
      "0", "1", "2", "3", "4", "5", "6", "7", "8", "9", ":",
      "A", "B", "C", "D", "E", "F", "G", "H", "I", "J", "K", "L", "M",
      "N", "O", "P", "Q", "R", "S", "T", "U", "V", "W", "X", "Y", "Z", "_",
      "a", "b", "c", "d", "e", "f", "g", "h", "i", "j", "k", "l", "m",
      "n", "o", "p", "q", "r", "s", "t", "u", "v", "w", "x", "y", "z">>

Code(c) == CHOOSE i \in DOMAIN Ascii : Ascii[i] = c

RECURSIVE LessFrom(_, _, _)
\* a < b for two texts that agree on their first k - 1 characters
LessFrom(a, b, k) ==
    IF k > Len(b) THEN FALSE
    ELSE IF k > Len(a) THEN TRUE
    ELSE IF a[k] = b[k] THEN LessFrom(a, b, k + 1)
    ELSE Code(a[k]) < Code(b[k])

\* a < b for two texts, as ORDER BY compares them
TextLess(a, b) == LessFrom(a, b, 1)

RECURSIVE LStrip(_)
LStrip(t) == IF t # <<>> /\ Head(t) = " " THEN LStrip(Tail(t)) ELSE t

RECURSIVE RStrip(_)
RStrip(t) ==
    IF t # <<>> /\ t[Len(t)] = " " THEN RStrip(SubSeq(t, 1, Len(t) - 1)) ELSE t

\* str.strip()
Strip(t) == RStrip(LStrip(t))

QueryLimit == 100

MaxFieldLength == 1000

DefaultLimit == 20

\* query.strip()[:100]
Sanitize(text) == SubSeq(Strip(text), 1, Min(QueryLimit, Len(Strip(text))))

\* variant of the ORDER BY of search_personnel without the name
PersonnelBeforeScoreOnly(a, b) == a.relevance_score > b.relevance_score

\* ORDER BY relevance_score DESC, name ASC
PersonnelBefore(a, b) ==
    \/ a.relevance_score > b.relevance_score
    \/ a.relevance_score = b.relevance_score /\ TextLess(a.name, b.name)

\* ORDER BY relevance_score DESC, serial_number ASC
AircraftBefore(a, b) ==
    \/ a.relevance_score > b.relevance_score
    \/ a.relevance_score = b.relevance_score /\ TextLess(a.serial_number, b.serial_number)

\* ORDER BY name
NameBefore(a, b) == TextLess(a.name, b.name)

\* sort(key=relevance_score, reverse=True): a stable sort
ScoreBefore(a, b) == a.relevance_score > b.relevance_score

\* ORDER BY CASE ... END, p.name ASC of build_advanced_search_query
AdvBefore(a, b) ==
    \/ a.order_rank < b.order_rank
    \/ a.order_rank = b.order_rank /\ TextLess(a.name, b.name)

\* the orders the searches sort by
Before(order, a, b) ==
    CASE order = "personnel" -> PersonnelBefore(a, b)
      [] order = "aircraft" -> AircraftBefore(a, b)
      [] order = "name" -> NameBefore(a, b)
      [] order = "score" -> ScoreBefore(a, b)
      [] order = "advanced" -> AdvBefore(a, b)

\* ORDER BY: the row at place i goes behind every row that sorts before it and
\* behind the rows of equal rank that the scan met first
SortBy(rows, order) ==
    CHOOSE sorted \in
        { [p \in DOMAIN r |-> r[CHOOSE i \in DOMAIN r : place[i] = p]] :
            <<r, place>> \in
                { <<r, [i \in DOMAIN r |->
                          1 + Cardinality({j \in DOMAIN r :
                                              \/ Before(order, r[j], r[i])
                                              \/ ~Before(order, r[i], r[j]) /\ j < i})]>> :
                    r \in {rows} } } : TRUE
\* filters.get(key) of the filters object of a request: the empty text, which is
\* falsy as None is, when the object has no such key
FilterGet(filters, key) == IF key \in DOMAIN filters THEN filters[key] ELSE <<>>

\* a filters object that constrains nothing (None, or every value empty)
NoFilters == [squadron |-> <<>>, rank |-> <<>>, role |-> <<>>, aircraft_type |-> <<>>]

\* the CASE expression of search_personnel
personnel_relevance_score(r, q) ==
    IF Lower(r.name) = Lower(q) THEN 10
    ELSE IF Lower(r.service_number) = Lower(q) THEN 10
    ELSE IF Like(r.name, q) THEN 8
    ELSE IF Like(r.service_number, q) THEN 8
    ELSE IF Like(r.squadron, q) THEN 6
    ELSE IF Like(r.rank, q) THEN 4
    ELSE IF Like(r.role, q) THEN 3
    ELSE 1
\* variant of the WHERE clause of search_personnel in which the filter conditions
\* are joined by OR
personnel_where_any_filter(r, q, filters) ==
    /\ \/ Like(r.name, q)
       \/ Like(r.service_number, q)
       \/ Like(r.squadron, q)
       \/ Like(r.rank, q)
       \/ Like(r.role, q)
       \/ Like(r.biography, q)
    /\ \/ \A key \in {"squadron", "rank", "role"} : FilterGet(filters, key) = <<>>
       \/ \E key \in {"squadron", "rank", "role"} :
             FilterGet(filters, key) # <<>> /\ Like(r[key], filters[key])
\* variant of the WHERE clause of search_personnel in which a filter key that holds
\* the empty text asks for an empty field
personnel_where_empty_constrains(r, q, filters) ==
    /\ \/ Like(r.name, q)
       \/ Like(r.service_number, q)
       \/ Like(r.squadron, q)
       \/ Like(r.rank, q)
       \/ Like(r.role, q)
       \/ Like(r.biography, q)
    /\ \A key \in {"squadron", "rank", "role"} \cap DOMAIN filters :
          IF filters[key] = <<>> THEN r[key] = <<>> ELSE Like(r[key], filters[key])

\* the WHERE clause of search_personnel, filter conditions included
personnel_where(r, q, filters) ==
    /\ \/ Like(r.name, q)
       \/ Like(r.service_number, q)
       \/ Like(r.squadron, q)
       \/ Like(r.rank, q)
       \/ Like(r.role, q)
       \/ Like(r.biography, q)
    /\ FilterGet(filters, "squadron") # <<>> => Like(r.squadron, filters.squadron)
    /\ FilterGet(filters, "rank") # <<>> => Like(r.rank, filters.rank)
    /\ FilterGet(filters, "role") # <<>> => Like(r.role, filters.role)

\* dict(row) of SELECT *, relevance_score: the row, its rowid and its score
PersonnelResult(id, r, q) ==
    [ id |-> id, name |-> r.name, service_number |-> r.service_number,
      rank |-> r.rank, role |-> r.role, squadron |-> r.squadron,
      biography |-> r.biography,
      relevance_score |-> personnel_relevance_score(r, q) ]

\* the rows the SELECT of search_personnel sorts, in scan order
PersonnelCandidates(table, q, filters) ==
    SelectSeq([i \in DOMAIN table |-> PersonnelResult(i, table[i], q)],
              LAMBDA x : personnel_where(table[x.id], q, filters))

\* what the connection does during one search: answers, cannot be opened, or
\* raises while the statement runs
ConnectionOutcomes ==
    { [kind |-> "ok"], [kind |-> "none"],
      [kind |-> "raise", error |-> "database is locked"] }
\* variant of DatabaseManager.search_personnel that rejects the empty text
search_personnel_rejects_empty(table, text, filters, limit, conn) ==
    IF conn.kind = "none"
    THEN [results |-> <<>>, failed |-> TRUE, error |-> <<"Database connection failed">>]
    ELSE IF conn.kind = "raise"
    THEN [results |-> <<>>, failed |-> TRUE, error |-> <<"Search failed: ", conn.error>>]
    ELSE IF Sanitize(text) = <<>>
    THEN [results |-> <<>>, failed |-> TRUE, error |-> <<"Query cannot be empty">>]
    ELSE [results |-> Limit(SortBy(PersonnelCandidates(table, Sanitize(text), filters),
                                   "personnel"), limit),
          failed |-> FALSE, error |-> <<>>]

\* DatabaseManager.search_personnel: (results, error)
search_personnel(table, text, filters, limit, conn) ==
    IF conn.kind = "none"
    THEN [results |-> <<>>, failed |-> TRUE, error |-> <<"Database connection failed">>]
    ELSE IF conn.kind = "raise"
    THEN [results |-> <<>>, failed |-> TRUE, error |-> <<"Search failed: ", conn.error>>]
    ELSE [results |-> Limit(SortBy(PersonnelCandidates(table, Sanitize(text), filters),
                                   "personnel"), limit),
          failed |-> FALSE, error |-> <<>>]

\* the CASE expression of search_aircraft
aircraft_relevance_score(r, q) ==
    IF Lower(r.serial_number) = Lower(q) THEN 10
    ELSE IF Like(r.serial_number, q) THEN 8
    ELSE IF Like(r.aircraft_type, q) THEN 6
    ELSE IF Like(r.squadron, q) THEN 5
    ELSE 1
\* variant of the WHERE clause of search_aircraft in which the filter conditions
\* are joined by OR
aircraft_where_any_filter(r, q, filters) ==
    /\ \/ Like(r.serial_number, q)
       \/ Like(r.aircraft_type, q)
       \/ Like(r.squadron, q)
       \/ Like(r.crew_details, q)
       \/ Like(r.service_history, q)
    /\ \/ \A key \in {"aircraft_type", "squadron"} : FilterGet(filters, key) = <<>>
       \/ \E key \in {"aircraft_type", "squadron"} :
             FilterGet(filters, key) # <<>> /\ Like(r[key], filters[key])

\* the WHERE clause of search_aircraft, filter conditions included
aircraft_where(r, q, filters) ==
    /\ \/ Like(r.serial_number, q)
       \/ Like(r.aircraft_type, q)
       \/ Like(r.squadron, q)
       \/ Like(r.crew_details, q)
       \/ Like(r.service_history, q)
    /\ FilterGet(filters, "aircraft_type") # <<>>
           => Like(r.aircraft_type, filters.aircraft_type)
    /\ FilterGet(filters, "squadron") # <<>> => Like(r.squadron, filters.squadron)

AircraftResult(id, r, q) ==
    [ id |-> id, serial_number |-> r.serial_number, aircraft_type |-> r.aircraft_type,
      squadron |-> r.squadron, crew_details |-> r.crew_details,
      service_history |-> r.service_history,
      relevance_score |-> aircraft_relevance_score(r, q) ]

AircraftCandidates(table, q, filters) ==
    SelectSeq([i \in DOMAIN table |-> AircraftResult(i, table[i], q)],
              LAMBDA x : aircraft_where(table[x.id], q, filters))
\* variant of DatabaseManager.search_aircraft that returns an empty list and no
\* error when the store fails
search_aircraft_swallow(table, text, filters, limit, conn) ==
    IF conn.kind # "ok"
    THEN [results |-> <<>>, failed |-> FALSE, error |-> <<>>]
    ELSE [results |-> Limit(SortBy(AircraftCandidates(table, Sanitize(text), filters),
                                   "aircraft"), limit),
          failed |-> FALSE, error |-> <<>>]

\* DatabaseManager.search_aircraft: (results, error)
search_aircraft(table, text, filters, limit, conn) ==
    IF conn.kind = "none"
    THEN [results |-> <<>>, failed |-> TRUE, error |-> <<"Database connection failed">>]
    ELSE IF conn.kind = "raise"
    THEN [results |-> <<>>, failed |-> TRUE, error |-> <<"Search failed: ", conn.error>>]
    ELSE [results |-> Limit(SortBy(AircraftCandidates(table, Sanitize(text), filters),
                                   "aircraft"), limit),
          failed |-> FALSE, error |-> <<>>]

\* validate_input(data, ['query']): the error, or the empty text when data is valid
validate_input(body) ==
    IF ~body.present THEN <<"No data provided">>
    ELSE IF ~body.has_query THEN <<"Missing required field: query">>
    ELSE IF Len(Strip(body.query)) > MaxFieldLength
    THEN <<"Field query too long (max 1000 characters)">>
    ELSE <<>>

\* the answer of a search endpoint to one request body
SearchAnswer(site, body, found) ==
    IF validate_input(body) # <<>>
    THEN [site |-> site, status |-> 400, error |-> validate_input(body),
          text |-> <<>>, filters |-> NoFilters, results |-> <<>>]
    ELSE IF Strip(body.query) = <<>>
    THEN [site |-> site, status |-> 400, error |-> <<"Query cannot be empty">>,
          text |-> <<>>, filters |-> NoFilters, results |-> <<>>]
    ELSE IF found.failed
    THEN [site |-> site, status |-> 500, error |-> found.error,
          text |-> Strip(body.query), filters |-> body.filters, results |-> <<>>]
    ELSE [site |-> site, status |-> 200, error |-> <<>>,
          text |-> Strip(body.query), filters |-> body.filters,
          results |-> found.results, count |-> Len(found.results)]

(* the requests and the stores *)

\* rows of the same two people as another process may have put in the file: one
\* name, two service numbers, and a rank that is no part of the name
ExtraSmithA ==
    [ name |-> <<"J", "o", "h", "n", " ", "S", "m", "i", "t", "h">>,
      service_number |-> <<"1", "0", "0", "0", "0", "0", "1">>,
      rank |-> <<"P", "i", "l", "o", "t", " ", "O", "f", "f", "i", "c", "e", "r">>,
      role |-> <<"A", "i", "r", " ", "G", "u", "n", "n", "e", "r">>,
      squadron |-> <<"4", "4", " ", "S", "q", "u", "a", "d", "r", "o", "n">>,
      biography |-> <<"A", "i", "r", " ", "G", "u", "n", "n", "e", "r", " ", "w", "i", "t", "h", " ", "4", "4", " ", "S", "q", "u", "a", "d", "r", "o", "n", ".">> ]

ExtraSmithB ==
    [ name |-> <<"J", "o", "h", "n", " ", "S", "m", "i", "t", "h">>,
      service_number |-> <<"1", "0", "0", "0", "0", "0", "2">>,
      rank |-> <<"P", "i", "l", "o", "t", " ", "O", "f", "f", "i", "c", "e", "r">>,
      role |-> <<"A", "i", "r", " ", "G", "u", "n", "n", "e", "r">>,
      squadron |-> <<"4", "4", " ", "S", "q", "u", "a", "d", "r", "o", "n">>,
      biography |-> <<"A", "i", "r", " ", "G", "u", "n", "n", "e", "r", " ", "w", "i", "t", "h", " ", "4", "4", " ", "S", "q", "u", "a", "d", "r", "o", "n", ".">> ]

\* two aircraft rows with serial numbers of their own
ExtraED932 ==
    [ serial_number |-> <<"E", "D", "9", "3", "2">>,
      aircraft_type |-> <<"A", "v", "r", "o", " ", "L", "a", "n", "c", "a", "s", "t", "e", "r", " ", "B", ".", "I", "I", "I">>,
      squadron |-> <<"6", "1", "7", " ", "S", "q", "u", "a", "d", "r", "o", "n", " ", "\"", "D", "a", "m", " ", "B", "u", "s", "t", "e", "r", "s", "\"">>,
      crew_details |-> <<"W", "i", "n", "g", " ", "C", "o", "m", "m", "a", "n", "d", "e", "r", " ", "G", "u", "y", " ", "G", "i", "b", "s", "o", "n", " ", "(", "P", "i", "l", "o", "t", ")">>,
      service_history |-> <<"S", "e", "r", "v", "e", "d", " ", "w", "i", "t", "h", " ", "6", "1", "7", " ", "S", "q", "u", "a", "d", "r", "o", "n", " ", "f", "o", "r", " ", "O", "p", "e", "r", "a", "t", "i", "o", "n", " ", "C", "h", "a", "s", "t", "i", "s", "e", ".">> ]

ExtraR5868 ==
    [ serial_number |-> <<"R", "5", "8", "6", "8">>,
      aircraft_type |-> <<"A", "v", "r", "o", " ", "L", "a", "n", "c", "a", "s", "t", "e", "r", " ", "B", ".", "I">>,
      squadron |-> <<"8", "3", " ", "S", "q", "u", "a", "d", "r", "o", "n">>,
      crew_details |-> <<"V", "a", "r", "i", "o", "u", "s", " ", "c", "r", "e", "w", "s">>,
      service_history |-> <<"L", "o", "n", "g", "-", "s", "e", "r", "v", "i", "n", "g", " ", "L", "a", "n", "c", "a", "s", "t", "e", "r", " ", "w", "i", "t", "h", " ", "8", "3", " ", "S", "q", "u", "a", "d", "r", "o", "n", ".">> ]

PersonnelTexts ==
    { <<"s", "e", "r", "g", "e", "a", "n", "t", " ", "p", "a", "t", "r", "i", "c", "k", " ", "c", "a", "s", "s", "i", "d", "y">>,
      <<"1", "8", "0", "2", "0", "8", "2">>,
      <<" ", " ", "C", "a", "s", "s", "i", "d", "y", " ">>,
      <<"1", "8", "0", "2">>,
      <<"9", "7">>,
      <<"p", "i", "l", "o", "t", " ", "o", "f", "f", "i", "c", "e", "r">>,
      <<"n", "a", "v", "i", "g", "a", "t", "o", "r">>,
      <<"h", "a", "n", "o", "v", "e", "r">>,
      <<"j", "o", "h", "n", " ", "s", "m", "i", "t", "h">>,
      <<"s", "q", "u", "a", "d", "r", "o", "n">>,
      <<"%">>,
      <<"_">>,
      <<"x", "y", "z">>,
      <<" ", " ", " ">>,
      <<>> }

AircraftTexts ==
    { <<"j", "b", "1", "7", "4">>,
      <<" ", "J", "B", "1">>,
      <<"l", "a", "n", "c", "a", "s", "t", "e", "r">>,
      <<"s", "q", "u", "a", "d", "r", "o", "n">>,
      <<"g", "i", "b", "s", "o", "n">>,
      <<"h", "a", "n", "o", "v", "e", "r">>,
      <<"%">>,
      <<"_">>,
      <<"x", "y", "z">>,
      <<>> }

PersonnelFilters ==
    { NoFilters,
      [NoFilters EXCEPT !.rank = <<"S", "e", "r", "g", "e", "a", "n", "t">>],
      [NoFilters EXCEPT !.squadron = <<"9", "7">>, !.role = <<"N", "a", "v", "i", "g", "a", "t", "o", "r">>] }

AircraftFilters ==
    { NoFilters,
      [NoFilters EXCEPT !.aircraft_type = <<"B", ".", "I", "I", "I">>],
      [NoFilters EXCEPT !.squadron = <<"6", "1", "7">>] }

\* request.get_json(): nothing, an object without 'query', or one with a query
\* text and filters
SearchBodies(texts, filters) ==
    { [present |-> FALSE], [present |-> TRUE, has_query |-> FALSE] }
    \cup { [present |-> TRUE, has_query |-> TRUE, query |-> t, filters |-> f] :
             t \in texts, f \in filters }

(* src/app_v2_fixed.py: the endpoint search_personnel *)

\* relevance_score of one row: 5, and 3, 5 and 2 more when the text is in the
\* name, the service number and the squadron
v2_relevance_score(r, q) ==
    5 + (IF IsSubstring(Lower(q), Lower(r.name)) THEN 3 ELSE 0)
      + (IF IsSubstring(Lower(q), Lower(r.service_number)) THEN 5 ELSE 0)
      + (IF IsSubstring(Lower(q), Lower(r.squadron)) THEN 2 ELSE 0)

AllSquadrons == <<"A", "l", "l", " ", "S", "q", "u", "a", "d", "r", "o", "n", "s">>

AllRanks == <<"A", "l", "l", " ", "R", "a", "n", "k", "s">>

AllRoles == <<"A", "l", "l", " ", "R", "o", "l", "e", "s">>

\* the WHERE clause, filter conditions included
v2_where(r, q, filters) ==
    /\ \/ Like(r.name, q)
       \/ Like(r.service_number, q)
       \/ Like(r.biography, q)
       \/ Like(r.squadron, q)
    /\ (filters.squadron # <<>> /\ filters.squadron # AllSquadrons)
          => Like(r.squadron, filters.squadron)
    /\ (filters.rank # <<>> /\ filters.rank # AllRanks) => r.rank = filters.rank
    /\ (filters.role # <<>> /\ filters.role # AllRoles) => r.role = filters.role

V2Result(id, r, q) ==
    [ id |-> id, name |-> r.name, service_number |-> r.service_number,
      rank |-> r.rank, role |-> r.role, squadron |-> r.squadron,
      biography |-> r.biography,
      relevance_score |-> v2_relevance_score(r, q) ]

\* cursor.fetchall() of the SELECT, formatted
V2Rows(table, q, filters) ==
    SortBy(SelectSeq([i \in DOMAIN table |-> V2Result(i, table[i], q)],
                     LAMBDA x : v2_where(table[x.id], q, filters)),
           "name")

\* the answer of the endpoint to one request body
v2_search_personnel(table, body, conn) ==
    IF ~body.present
    THEN [site |-> "v2", status |-> 500, error |-> <<"Search failed">>,
          text |-> <<>>, filters |-> NoFilters, results |-> <<>>]
    ELSE IF ~body.has_query \/ Strip(body.query) = <<>>
    THEN [site |-> "v2", status |-> 400, error |-> <<"Query is required">>,
          text |-> <<>>, filters |-> NoFilters, results |-> <<>>]
    ELSE IF conn.kind # "ok"
    THEN [site |-> "v2", status |-> 500, error |-> <<"Search failed">>,
          text |-> Strip(body.query), filters |-> body.filters, results |-> <<>>]
    ELSE [site |-> "v2", status |-> 200, error |-> <<>>,
          text |-> Strip(body.query), filters |-> body.filters,
          results |-> SortBy(V2Rows(table, Strip(body.query), body.filters),
                             "score")]

MaxExtraRows == 41

DigitChars == <<"0", "1", "2", "3", "4", "5", "6", "7", "8", "9">>

\* rows beside the seeded ones, each with a service number of its own
V2ExtraRows(n) ==
    [ i \in 1..n |->
        [ name |-> <<"A", "i", "r", "m", "a", "n", " ">> \o <<DigitChars[(i \div 10) + 1], DigitChars[(i % 10) + 1]>>,
          service_number |->
              <<"9", "0", "0", "0", "0">> \o <<DigitChars[(i \div 10) + 1], DigitChars[(i % 10) + 1]>>,
          rank |-> <<"S", "e", "r", "g", "e", "a", "n", "t">>,
          role |-> <<"A", "i", "r", " ", "G", "u", "n", "n", "e", "r">>,
          squadron |-> <<"8", "3", " ", "S", "q", "u", "a", "d", "r", "o", "n">>,
          biography |-> <<"A", "i", "r", " ", "G", "u", "n", "n", "e", "r", " ", "w", "i", "t", "h", " ", "8", "3", " ", "S", "q", "u", "a", "d", "r", "o", "n", ".">> ] ]

V2Texts ==
    { <<"c", "a", "s", "s", "i", "d", "y">>,
      <<"1", "8", "0", "2", "0", "8", "2">>,
      <<"6", "1", "7">>,
      <<"S", "e", "r", "g", "e", "a", "n", "t">>,
      <<"p", "i", "l", "o", "t">>,
      <<"s", "q", "u", "a", "d", "r", "o", "n">>,
      <<" ", "g", "i", "b", "s", "o", "n", " ">>,
      <<"8", "9">>,
      <<"a">>,
      <<"%">>,
      <<"x", "y", "z">>,
      <<>> }

V2Filters ==
    { NoFilters,
      [NoFilters EXCEPT !.squadron = AllSquadrons, !.rank = AllRanks],
      [NoFilters EXCEPT !.rank = <<"S", "e", "r", "g", "e", "a", "n", "t">>],
      [NoFilters EXCEPT !.squadron = <<"6", "1", "7">>, !.role = <<"P", "i", "l", "o", "t">>] }

V2_initialize_database ==
    /\ pc = "idle"
    /\ v2_personnel_table' = V2PersonnelSeed
    /\ UNCHANGED <<client_configured, pc, query, agents_to_use, db_context, next_agent,
                   agent_responses, calls, result, http, personnel_table, aircraft_table,
                   store_failed, search>>
    /\ UNCHANGED <<adv_personnel_table, squadrons_table>>
    /\ UNCHANGED <<request_counts, now, admitted, threads, rate>>

\* POST /api/personnel/search of src/app_v2_fixed.py
V2SearchPersonnel ==
    /\ pc = "idle"
    /\ \E body \in SearchBodies(V2Texts, V2Filters), conn \in ConnectionOutcomes :
        search' = v2_search_personnel(v2_personnel_table, body, conn)
    /\ pc' = "done"
    /\ UNCHANGED <<client_configured, query, agents_to_use, db_context, next_agent,
                   agent_responses, calls, result, http, personnel_table, aircraft_table,
                   v2_personnel_table, store_failed>>
    /\ UNCHANGED <<adv_personnel_table, squadrons_table>>
    /\ UNCHANGED <<request_counts, now, admitted, threads, rate>>


(* the three applications and their stores *)

\* the rows the file holds beside the ones the applications insert
ExtraRows ==
    { [personnel |-> <<>>, aircraft |-> <<>>, v2 |-> 0],
      [personnel |-> <<ExtraSmithA, ExtraSmithB>>, aircraft |-> <<ExtraR5868, ExtraED932>>,
       v2 |-> MaxExtraRows],
      [personnel |-> <<ExtraSmithB, ExtraSmithA>>, aircraft |-> <<ExtraR5868, ExtraED932>>,
       v2 |-> 0] }

SearchInit ==
    /\ client_configured = FALSE
    /\ pc = "idle"
    /\ query = <<>>
    /\ agents_to_use = <<>>
    /\ db_context = <<>>
    /\ next_agent = 1
    /\ agent_responses = <<>>
    /\ calls = <<>>
    /\ result = NoResult
    /\ http = NoAnswer
    /\ \E extra \in ExtraRows :
        /\ personnel_table = AppPersonnelSeed \o extra.personnel
        /\ aircraft_table = AppAircraftSeed \o extra.aircraft
        /\ v2_personnel_table = V2PersonnelSeed \o V2ExtraRows(extra.v2)
    /\ store_failed = FALSE
    /\ search = NoSearch
    /\ AdvIdle
    /\ RateIdle

\* initialize_database on a later start of the application: the table has no
\* UNIQUE constraint, so INSERT OR REPLACE adds the rows again
initialize_database ==
    /\ pc = "idle"
    /\ Len(SelectSeq(aircraft_table, LAMBDA r : r = AppAircraftSeed[1])) < MaxInits
    /\ personnel_table' = personnel_table \o AppPersonnelSeed
    /\ aircraft_table' = aircraft_table \o AppAircraftSeed
    /\ UNCHANGED <<client_configured, pc, query, agents_to_use, db_context, next_agent,
                   agent_responses, calls, result, http, v2_personnel_table, store_failed,
                   search>>
    /\ UNCHANGED <<adv_personnel_table, squadrons_table>>
    /\ UNCHANGED <<request_counts, now, admitted, threads, rate>>

\* POST /api/personnel/search
SearchPersonnel ==
    /\ pc = "idle"
    /\ \E body \in SearchBodies(PersonnelTexts, PersonnelFilters),
          conn \in ConnectionOutcomes :
        /\ store_failed' = ( /\ validate_input(body) = <<>>
                            /\ Strip(body.query) # <<>>
                            /\ conn.kind # "ok" )
        /\ search' = SearchAnswer("personnel", body,
                      IF body.present /\ body.has_query
                      THEN search_personnel(personnel_table, body.query, body.filters,
                                            DefaultLimit, conn)
                      ELSE [failed |-> FALSE])
    /\ pc' = "done"
    /\ UNCHANGED <<client_configured, query, agents_to_use, db_context, next_agent,
                   agent_responses, calls, result, http, personnel_table, aircraft_table,
                   v2_personnel_table>>
    /\ UNCHANGED <<adv_personnel_table, squadrons_table>>
    /\ UNCHANGED <<request_counts, now, admitted, threads, rate>>

\* POST /api/aircraft/search
SearchAircraft ==
    /\ pc = "idle"
    /\ \E body \in SearchBodies(AircraftTexts, AircraftFilters),
          conn \in ConnectionOutcomes :
        /\ store_failed' = ( /\ validate_input(body) = <<>>
                            /\ Strip(body.query) # <<>>
                            /\ conn.kind # "ok" )
        /\ search' = SearchAnswer("aircraft", body,
                      IF body.present /\ body.has_query
                      THEN search_aircraft(aircraft_table, body.query, body.filters,
                                           DefaultLimit, conn)
                      ELSE [failed |-> FALSE])
    /\ pc' = "done"
    /\ UNCHANGED <<client_configured, query, agents_to_use, db_context, next_agent,
                   agent_responses, calls, result, http, personnel_table, aircraft_table,
                   v2_personnel_table>>
    /\ UNCHANGED <<adv_personnel_table, squadrons_table>>
    /\ UNCHANGED <<request_counts, now, admitted, threads, rate>>

SearchNext ==
    \/ initialize_database
    \/ SearchPersonnel
    \/ SearchAircraft
    \/ V2_initialize_database
    \/ V2SearchPersonnel
    \/ Finish

SearchSpec == SearchInit /\ [][SearchNext]_vars

-----------------------------------------------------------------------------
(* src/app_advanced_filters.py: the advanced personnel search *)

\* the columns of s in a row of the LEFT JOIN that found no squadron
Null == <<"NULL">>

\* LIMIT 100
AdvancedLimit == 100

\* the value is the text of a number int() reads
IsNumber(v) ==
    v # <<>> /\ \A i \in DOMAIN v : \E d \in DOMAIN DigitChars : DigitChars[d] = v[i]

RECURSIVE ToInt(_)
\* int(value) of a text of digits
ToInt(v) ==
    IF v = <<>> THEN 0
    ELSE 10 * ToInt(SubSeq(v, 1, Len(v) - 1))
         + (CHOOSE d \in 0..9 : DigitChars[d + 1] = v[Len(v)])

\* the rows of personnel p LEFT JOIN squadrons s ON p.squadron LIKE '%' ||
\* s.squadron_number || '%' that the row i of p gives: one for every squadron whose
\* number the squadron text holds, and one without a squadron when there is none
JoinRows(personnel, squadrons, i) ==
    LET hits == SelectSeq([j \in DOMAIN squadrons |-> j],
                          LAMBDA j : Like(personnel[i].squadron,
                                          squadrons[j].squadron_number))
    IN  IF hits = <<>> THEN << [p |-> i, s |-> 0] >>
        ELSE [k \in DOMAIN hits |-> [p |-> i, s |-> hits[k]]]

RECURSIVE AdvJoin(_, _, _)
\* the rows of the join from the row i of personnel on, in scan order
AdvJoin(personnel, squadrons, i) ==
    IF i > Len(personnel) THEN <<>>
    ELSE JoinRows(personnel, squadrons, i) \o AdvJoin(personnel, squadrons, i + 1)

\* int(filters[key]) raises ValueError
AdvRaises(filters) ==
    \E key \in {"age_from", "age_to", "min_missions"} :
        FilterGet(filters, key) # <<>> /\ ~IsNumber(filters[key])

\* the conditions build_advanced_search_query joins with AND, on the personnel row
\* p and the base location of the squadron joined to it
adv_conditions(p, s_base_location, filters) ==
    /\ FilterGet(filters, "query") # <<>> =>
          \/ Like(p.name, filters.query)
          \/ Like(p.service_number, filters.query)
          \/ Like(p.squadron, filters.query)
          \/ Like(p.role, filters.query)
          \/ Like(p.rank, filters.query)
          \/ Like(p.biography, filters.query)
    /\ FilterGet(filters, "date_from") # <<>> =>
          ~TextLess(p.date_of_death, filters.date_from)
    /\ FilterGet(filters, "date_to") # <<>> =>
          ~TextLess(filters.date_to, p.date_of_death)
    /\ FilterGet(filters, "service_from") # <<>> =>
          ~TextLess(p.service_start_date, filters.service_from)
    /\ FilterGet(filters, "service_to") # <<>> =>
          ~TextLess(filters.service_to, p.service_end_date)
    /\ FilterGet(filters, "aircraft_type") # <<>> =>
          Like(p.aircraft_type, filters.aircraft_type)
    /\ FilterGet(filters, "squadron") # <<>> => Like(p.squadron, filters.squadron)
    /\ FilterGet(filters, "role") # <<>> => Like(p.role, filters.role)
    /\ FilterGet(filters, "rank") # <<>> => Like(p.rank, filters.rank)
    /\ FilterGet(filters, "base_location") # <<>> =>
          \/ Like(p.base_location, filters.base_location)
          \/ s_base_location # Null /\ Like(s_base_location, filters.base_location)
    /\ FilterGet(filters, "age_from") # <<>> =>
          p.age_at_death >= ToInt(filters.age_from)
    /\ FilterGet(filters, "age_to") # <<>> =>
          p.age_at_death <= ToInt(filters.age_to)
    /\ FilterGet(filters, "min_missions") # <<>> =>
          p.mission_count >= ToInt(filters.min_missions)
    /\ FilterGet(filters, "has_awards") = <<"t", "r", "u", "e">> =>
          p.awards # <<"N", "o", "n", "e", " ", "r", "e", "c", "o", "r", "d", "e", "d">>
    /\ FilterGet(filters, "has_awards") = <<"f", "a", "l", "s", "e">> =>
          p.awards = <<"N", "o", "n", "e", " ", "r", "e", "c", "o", "r", "d", "e", "d">>
    /\ FilterGet(filters, "memorial_location") # <<>> =>
          Like(p.memorial_location, filters.memorial_location)

\* the CASE expression of the ORDER BY, on exact_term = filters.get('query', '')
adv_order_rank(p, filters) ==
    IF p.service_number = FilterGet(filters, "query") THEN 1
    ELSE IF Like(p.name, FilterGet(filters, "query")) THEN 2
    ELSE IF Like(p.squadron, FilterGet(filters, "query")) THEN 3
    ELSE 4

\* a row of SELECT p.*, s.base_location as squadron_base, s.group_number with the
\* key the ORDER BY sorts it by
AdvRow(personnel, squadrons, pair, filters) ==
    [ id |-> pair.p,
      name |-> personnel[pair.p].name,
      service_number |-> personnel[pair.p].service_number,
      squadron |-> personnel[pair.p].squadron,
      squadron_base |-> IF pair.s = 0 THEN Null ELSE squadrons[pair.s].base_location,
      group_number |-> IF pair.s = 0 THEN Null ELSE squadrons[pair.s].group_number,
      order_rank |-> adv_order_rank(personnel[pair.p], filters) ]

\* the query and parameters of build_advanced_search_query run on the store: the
\* joined rows that pass the conditions, ordered and cut at LIMIT 100
build_advanced_search_query(personnel, squadrons, filters) ==
    LET joined == [k \in DOMAIN AdvJoin(personnel, squadrons, 1) |->
                      AdvRow(personnel, squadrons, AdvJoin(personnel, squadrons, 1)[k],
                             filters)]
        passing == SelectSeq(joined,
                             LAMBDA x : adv_conditions(personnel[x.id], x.squadron_base,
                                                       filters))
        sorted == SortBy(passing, "advanced")
    IN  Limit([k \in DOMAIN sorted |->
                  [ id |-> sorted[k].id, name |-> sorted[k].name,
                    service_number |-> sorted[k].service_number,
                    squadron |-> sorted[k].squadron,
                    squadron_base |-> sorted[k].squadron_base,
                    group_number |-> sorted[k].group_number ]], AdvancedLimit)

\* advanced_personnel_search: the answer to the request body data
advanced_personnel_search(personnel, squadrons, data, conn) ==
    IF AdvRaises(data) \/ conn.kind # "ok"
    THEN [site |-> "advanced", status |-> 500, error |-> <<"Advanced search failed">>,
          text |-> <<>>, filters |-> data, results |-> <<>>]
    ELSE [site |-> "advanced", status |-> 200, error |-> <<>>,
          text |-> FilterGet(data, "query"), filters |-> data,
          results |-> build_advanced_search_query(personnel, squadrons, data)]

\* squadrons rows with numbers that are part of other squadrons' numbers
ExtraSquadrons ==
    << [ squadron_number |-> <<"6", "1">>,
         base_location |-> <<"R", "A", "F", " ", "S", "k", "e", "l", "l", "i", "n", "g",
                             "t", "h", "o", "r", "p", "e">>,
         group_number |-> <<"5", " ", "G", "r", "o", "u", "p">> ],
       [ squadron_number |-> <<"7">>,
         base_location |-> <<"R", "A", "F", " ", "O", "a", "k", "i", "n", "g", "t", "o", "n">>,
         group_number |-> <<"8", " ", "G", "r", "o", "u", "p">> ] >>

\* the request bodies of the advanced search
AdvancedBodies ==
    { <<>>,
      [query |-> <<"s", "q", "u", "a", "d", "r", "o", "n">>],
      [query |-> <<"s", "q", "u", "a", "d", "r", "o", "n">>,
       rank |-> <<"S", "e", "r", "g", "e", "a", "n", "t">>],
      [query |-> <<"s", "q", "u", "a", "d", "r", "o", "n">>,
       rank |-> <<"S", "e", "r", "g", "e", "a", "n", "t">>, role |-> <<>>],
      [query |-> <<"s", "q", "u", "a", "d", "r", "o", "n">>,
       rank |-> <<"S", "e", "r", "g", "e", "a", "n", "t">>,
       decade |-> <<"1", "9", "4", "0", "s">>],
      [query |-> <<"1", "8", "0", "2", "0", "8", "2">>],
      [squadron |-> <<"6", "1", "7">>],
      [squadron |-> <<"6", "1", "7">>,
       base_location |-> <<"l", "i", "n", "c", "o", "l", "n", "s", "h", "i", "r", "e">>],
      [base_location |-> <<"L", "i", "n", "c", "o", "l", "n", "s", "h", "i", "r", "e">>],
      [age_from |-> <<"2", "3">>],
      [age_from |-> <<"2", "3">>, age_to |-> <<"2", "4">>],
      [age_from |-> <<"a", "b", "c">>],
      [has_awards |-> <<"t", "r", "u", "e">>],
      [has_awards |-> <<"f", "a", "l", "s", "e">>, min_missions |-> <<"2", "0">>],
      [has_awards |-> <<"f", "a", "l", "s", "e">>],
      [date_from |-> <<"1", "9", "4", "4", "-", "0", "1", "-", "0", "1">>],
      [date_from |-> <<"1", "9", "4", "4", "-", "0", "1", "-", "0", "1">>,
       date_to |-> <<"1", "9", "4", "4", "-", "0", "6", "-", "3", "0">>],
      [service_from |-> <<"1", "9", "4", "2", "-", "0", "1", "-", "0", "1">>],
      [service_from |-> <<"1", "9", "4", "2", "-", "0", "1", "-", "0", "1">>,
       service_to |-> <<"1", "9", "4", "4", "-", "0", "1", "-", "0", "1">>],
      [memorial_location |-> <<"R", "u", "n", "n", "y", "m", "e", "d", "e">>],
      [memorial_location |-> <<"R", "u", "n", "n", "y", "m", "e", "d", "e">>,
       aircraft_type |-> <<"L", "a", "n", "c", "a", "s", "t", "e", "r">>,
       role |-> <<"g", "u", "n", "n", "e", "r">>] }

\* POST /api/personnel/search/advanced
AdvancedPersonnelSearch ==
    /\ pc = "idle"
    /\ \E data \in AdvancedBodies, conn \in ConnectionOutcomes :
        /\ store_failed' = (conn.kind # "ok")
        /\ search' = advanced_personnel_search(adv_personnel_table, squadrons_table, data,
                                            conn)
    /\ pc' = "done"
    /\ UNCHANGED <<client_configured, query, agents_to_use, db_context, next_agent,
                   agent_responses, calls, result, http, personnel_table, aircraft_table,
                   v2_personnel_table>>
    /\ UNCHANGED <<adv_personnel_table, squadrons_table>>
    /\ UNCHANGED <<request_counts, now, admitted, threads, rate>>

-----------------------------------------------------------------------------
(* DatabaseManager.search_personnel and search_aircraft called directly *)

EngineTexts ==
    { <<>>,
      <<"1", "8", "0", "2", "0", "8", "2">>,
      <<"1", "0", "0", "0", "0", "0", "2">>,
      <<" ", "S", "E", "R", "G", "E", "A", "N", "T", " ">>,
      <<"s", "q", "u", "a", "d", "r", "o", "n">>,
      <<"9", "7">>,
      <<"x", "y", "z">> }

EngineAircraftTexts ==
    { <<>>,
      <<"j", "b", "1", "7", "4">>,
      <<"E", "D", "9", "3", "2">>,
      <<"l", "a", "n", "c", "a", "s", "t", "e", "r">>,
      <<"x", "y", "z">> }

\* the filters objects of the requests: keys may be absent, hold the empty text,
\* or be keys no search knows
RawPersonnelFilters ==
    { NoFilters,
      [rank |-> <<"S", "e", "r", "g", "e", "a", "n", "t">>],
      [rank |-> <<"S", "e", "r", "g", "e", "a", "n", "t">>, squadron |-> <<>>],
      [rank |-> <<"S", "e", "r", "g", "e", "a", "n", "t">>,
       decade |-> <<"1", "9", "4", "0", "s">>],
      [rank |-> <<"S", "e", "r", "g", "e", "a", "n", "t">>, squadron |-> <<"9", "7">>],
      [squadron |-> <<"9", "7">>],
      [squadron |-> <<"9", "7">>, role |-> <<"n", "a", "v", "i", "g", "a", "t", "o", "r">>],
      [decade |-> <<"1", "9", "4", "0", "s">>] }

RawAircraftFilters ==
    { NoFilters,
      [aircraft_type |-> <<"L", "a", "n", "c", "a", "s", "t", "e", "r">>],
      [aircraft_type |-> <<"L", "a", "n", "c", "a", "s", "t", "e", "r">>,
       squadron |-> <<"6", "1", "7">>],
      [squadron |-> <<"6", "1", "7">>, rank |-> <<>>],
      [decade |-> <<"1", "9", "4", "0", "s">>] }

\* the values of the limit parameter
Limits == {1, 3, DefaultLimit}

\* one call of the engine and what it returned
EngineAnswer(site, text, filters, limit, found) ==
    [ site |-> site, status |-> IF found.failed THEN 500 ELSE 200, error |-> found.error,
      text |-> Sanitize(text), filters |-> filters, limit |-> limit,
      results |-> found.results ]

EngineInit ==
    /\ client_configured = FALSE
    /\ pc = "idle"
    /\ query = <<>>
    /\ agents_to_use = <<>>
    /\ db_context = <<>>
    /\ next_agent = 1
    /\ agent_responses = <<>>
    /\ calls = <<>>
    /\ result = NoResult
    /\ http = NoAnswer
    /\ \E extra \in {e \in ExtraRows : e.v2 = 0} :
        /\ personnel_table = AppPersonnelSeed \o extra.personnel
        /\ aircraft_table = AppAircraftSeed \o extra.aircraft
        /\ squadrons_table = IF extra.personnel = <<>> THEN SquadronSeed
                             ELSE SquadronSeed \o ExtraSquadrons
    /\ v2_personnel_table = V2PersonnelSeed
    /\ store_failed = FALSE
    /\ search = NoSearch
    /\ adv_personnel_table = AdvPersonnelSeed
    /\ RateIdle

\* db_manager.search_personnel(query, filters, limit)
EngineSearchPersonnel ==
    /\ pc = "idle"
    /\ \E text \in EngineTexts, filters \in RawPersonnelFilters, limit \in Limits,
          conn \in ConnectionOutcomes :
        /\ store_failed' = (conn.kind # "ok")
        /\ search' = EngineAnswer("engine_personnel", text, filters, limit,
                      search_personnel(personnel_table, text, filters, limit, conn))
    /\ pc' = "done"
    /\ UNCHANGED <<client_configured, query, agents_to_use, db_context, next_agent,
                   agent_responses, calls, result, http, personnel_table, aircraft_table,
                   v2_personnel_table>>
    /\ UNCHANGED <<adv_personnel_table, squadrons_table>>
    /\ UNCHANGED <<request_counts, now, admitted, threads, rate>>

\* db_manager.search_aircraft(query, filters, limit)
EngineSearchAircraft ==
    /\ pc = "idle"
    /\ \E text \in EngineAircraftTexts, filters \in RawAircraftFilters, limit \in Limits,
          conn \in ConnectionOutcomes :
        /\ store_failed' = (conn.kind # "ok")
        /\ search' = EngineAnswer("engine_aircraft", text, filters, limit,
                      search_aircraft(aircraft_table, text, filters, limit, conn))
    /\ pc' = "done"
    /\ UNCHANGED <<client_configured, query, agents_to_use, db_context, next_agent,
                   agent_responses, calls, result, http, personnel_table, aircraft_table,
                   v2_personnel_table>>
    /\ UNCHANGED <<adv_personnel_table, squadrons_table>>
    /\ UNCHANGED <<request_counts, now, admitted, threads, rate>>

EngineNext ==
    \/ initialize_database
    \/ EngineSearchPersonnel
    \/ EngineSearchAircraft
    \/ AdvancedPersonnelSearch
    \/ Finish

EngineSpec == EngineInit /\ [][EngineNext]_vars

-----------------------------------------------------------------------------
(* rate_limit of src/app.py *)

RATE_LIMIT_REQUESTS == 100

RATE_LIMIT_WINDOW == 60

\* The clock stops at MaxTime.
MaxTime == 60

\* what the clock may advance by between two reads of time.time(): one second
\* less than the window, or the whole window
Steps == {RATE_LIMIT_WINDOW - 1, RATE_LIMIT_WINDOW}

\* The second client sends at most MaxOther requests.
MaxOther == 1
\* CleanOldRequests with a window one second short: a request made 59 seconds ago
\* is dropped from the history
CleanOldRequests_short(history, t) ==
    SelectSeq(history, LAMBDA req_time : t - req_time < RATE_LIMIT_WINDOW - 1)

\* [req_time for req_time in request_counts[client_ip]
\*  if now - req_time < RATE_LIMIT_WINDOW]
CleanOldRequests(history, t) ==
    SelectSeq(history, LAMBDA req_time : t - req_time < RATE_LIMIT_WINDOW)

\* the variables rate_limit does not touch
served == <<client_configured, pc, query, agents_to_use, db_context, next_agent,
            agent_responses, calls, result, http,
            personnel_table, aircraft_table, v2_personnel_table, store_failed, search,
            adv_personnel_table, squadrons_table>>

\* decorated_function, one request handled with no other request inside it: the
\* history of the client is cleaned and stored, a full history answers 429,
\* otherwise the time of the request is appended and f is called. status 0
\* stands for the answer of f.
decorated_function ==
    /\ \E client_ip \in Clients :
        /\ client_ip = "10.0.0.2" => Len(admitted[client_ip]) < MaxOther
        /\ \E cleaned \in {CleanOldRequests(request_counts[client_ip], now)} :
            IF Len(cleaned) >= RATE_LIMIT_REQUESTS
            THEN /\ request_counts' = [request_counts EXCEPT ![client_ip] = cleaned]
                 /\ admitted' = admitted
                 /\ rate' = [client_ip |-> client_ip, status |-> 429, now |-> now,
                             before |-> request_counts]
            ELSE /\ request_counts' =
                     [request_counts EXCEPT ![client_ip] = Append(cleaned, now)]
                 /\ admitted' = [admitted EXCEPT ![client_ip] = Append(@, now)]
                 /\ rate' = [client_ip |-> client_ip, status |-> 0, now |-> now,
                             before |-> request_counts]
    /\ UNCHANGED <<now, threads>>
    /\ UNCHANGED served

\* time passes between two requests; time.time() is taken not to step backwards
Tick ==
    /\ \E s \in Steps :
        /\ now + s <= MaxTime
        /\ now' = now + s
    /\ UNCHANGED <<request_counts, admitted, threads, rate>>
    /\ UNCHANGED served

RateInit ==
    /\ client_configured = FALSE
    /\ pc = "idle"
    /\ query = <<>>
    /\ agents_to_use = <<>>
    /\ db_context = <<>>
    /\ next_agent = 1
    /\ agent_responses = <<>>
    /\ calls = <<>>
    /\ result = NoResult
    /\ http = NoAnswer
    /\ personnel_table = PersonnelTable
    /\ aircraft_table = AircraftTable
    /\ v2_personnel_table = V2PersonnelSeed
    /\ store_failed = FALSE
    /\ search = NoSearch
    /\ AdvIdle
    /\ RateIdle

RateNext ==
    \/ decorated_function
    \/ Tick

RateSpec == RateInit /\ [][RateNext]_vars

-----------------------------------------------------------------------------
(* rate_limit with several requests of one client inside it: app.run serves
   each request on a thread of its own and rate_limit takes no lock, so the
   threads may be switched between any two of its steps *)

\* the client whose requests are handled concurrently
ConcClient == "10.0.0.1"

\* the history of ConcClient when the concurrent requests arrive: one request
\* short of the limit, all admitted one at a time at time 0
PriorRequests == RATE_LIMIT_REQUESTS - 1

PriorHistory == [i \in 1..PriorRequests |-> 0]

\* At most MaxConcurrent requests are admitted on top of PriorHistory.
MaxConcurrent == 2

\* client_ip and now are read and the comprehension builds the cleaned list from
\* the list it finds in request_counts
ReadHistory(t) ==
    /\ threads[t].at = "out"
    /\ Len(admitted[ConcClient]) < PriorRequests + MaxConcurrent
    /\ threads' = [threads EXCEPT ![t] =
                      [at |-> "assign", client_ip |-> ConcClient, now |-> now,
                       cleaned |-> CleanOldRequests(request_counts[ConcClient], now)]]
    /\ UNCHANGED <<request_counts, now, admitted, rate>>
    /\ UNCHANGED served

\* request_counts[client_ip] = <the cleaned list>
AssignCleaned(t) ==
    /\ threads[t].at = "assign"
    /\ request_counts' =
           [request_counts EXCEPT ![threads[t].client_ip] = threads[t].cleaned]
    /\ threads' = [threads EXCEPT ![t].at = "check"]
    /\ UNCHANGED <<now, admitted, rate>>
    /\ UNCHANGED served

\* if len(request_counts[client_ip]) >= RATE_LIMIT_REQUESTS: return ..., 429
CheckRateLimit(t) ==
    /\ threads[t].at = "check"
    /\ IF Len(request_counts[threads[t].client_ip]) >= RATE_LIMIT_REQUESTS
       THEN /\ rate' = [client_ip |-> threads[t].client_ip, status |-> 429,
                        now |-> threads[t].now, before |-> request_counts]
            /\ threads' = [threads EXCEPT ![t] = NoThread]
       ELSE /\ rate' = rate
            /\ threads' = [threads EXCEPT ![t].at = "append"]
    /\ UNCHANGED <<request_counts, now, admitted>>
    /\ UNCHANGED served

\* request_counts[client_ip].append(now), then f is called
AddCurrentRequest(t) ==
    /\ threads[t].at = "append"
    /\ request_counts' = [request_counts EXCEPT ![threads[t].client_ip] =
                              Append(@, threads[t].now)]
    /\ admitted' = [admitted EXCEPT ![threads[t].client_ip] =
                        Append(@, threads[t].now)]
    /\ rate' = [client_ip |-> threads[t].client_ip, status |-> 0,
                now |-> threads[t].now, before |-> request_counts]
    /\ threads' = [threads EXCEPT ![t] = NoThread]
    /\ UNCHANGED now
    /\ UNCHANGED served

ConcInit ==
    /\ client_configured = FALSE
    /\ pc = "idle"
    /\ query = <<>>
    /\ agents_to_use = <<>>
    /\ db_context = <<>>
    /\ next_agent = 1
    /\ agent_responses = <<>>
    /\ calls = <<>>
    /\ result = NoResult
    /\ http = NoAnswer
    /\ personnel_table = PersonnelTable
    /\ aircraft_table = AircraftTable
    /\ v2_personnel_table = V2PersonnelSeed
    /\ store_failed = FALSE
    /\ search = NoSearch
    /\ AdvIdle
    /\ request_counts = [c \in Clients |-> IF c = ConcClient THEN PriorHistory ELSE <<>>]
    /\ now = 0
    /\ admitted = request_counts
    /\ threads = [t \in Threads |-> NoThread]
    /\ rate = NoRate

ConcNext ==
    \/ \E t \in Threads : ReadHistory(t)
    \/ \E t \in Threads : AssignCleaned(t)
    \/ \E t \in Threads : CheckRateLimit(t)
    \/ \E t \in Threads : AddCurrentRequest(t)
    \/ Tick

ConcSpec == ConcInit /\ [][ConcNext]_vars

-----------------------------------------------------------------------------
(* Properties *)

Range(s) == {s[i] : i \in DOMAIN s}

Roles == Range(Registry)

RegistryIndex(role) == CHOOSE i \in DOMAIN Registry : Registry[i] = role

\* the trigger terms of a role
Triggers(role) ==
    CASE role = "personnel" -> PersonnelTerms
      [] role = "aircraft" -> AircraftTerms
      [] role = "operations" -> OperationsTerms
      [] role = "historical" -> HistoricalTerms
      [] role = "statistical" -> StatisticalTerms

\* one of the role's trigger terms is a substring of the lower-cased query
RoleMatches(role, q) == \E term \in Triggers(role) : IsSubstring(term, Lower(q))

\* _select_agents has just returned the selection of the current request
Selected == pc = "context"

\* the loop over the selected roles is over and the list is handed to the synthesizer
HandedOver == pc = "synthesize"

\* the synthesizer has returned
Synthesized == pc = "respond"

\* the endpoint has answered a request that carried a non-empty query
Answered == pc = "done" /\ query # <<>>

\* C1: every selection is non-empty; when no trigger term of any role is a substring
\* of the lower-cased query, the selection is exactly <<personnel, historical>>.
C1_SelectionNonEmptyWithDefault ==
    Selected =>
        /\ agents_to_use # <<>>
        /\ (\A role \in Roles : ~RoleMatches(role, query))
               => agents_to_use = <<"personnel", "historical">>

C1_Witness ==
    /\ Selected
    /\ \A role \in Roles : ~RoleMatches(role, query)
    /\ agents_to_use = <<"personnel", "historical">>

\* C2: when at least one role matches, a role is selected if and only if one of its
\* trigger terms is a substring of the lower-cased query; the selected roles stand in
\* registry order, each once, wherever the terms occur; all five when all match.
C2_SelectionIsMatchesInRegistryOrder ==
    (Selected /\ \E role \in Roles : RoleMatches(role, query)) =>
        /\ \A role \in Roles : role \in Range(agents_to_use) <=> RoleMatches(role, query)
        /\ Range(agents_to_use) \subseteq Roles
        /\ \A i, j \in DOMAIN agents_to_use :
               i < j => RegistryIndex(agents_to_use[i]) < RegistryIndex(agents_to_use[j])
        /\ (\A role \in Roles : RoleMatches(role, query)) => agents_to_use = Registry

\* all five roles match a query whose statistical and historical terms come first
C2_Witness ==
    /\ Selected
    /\ query = ChunkAwardDataRaid \o ChunkBomberCrew
    /\ \A role \in Roles : RoleMatches(role, query)
    /\ agents_to_use = Registry

\* C3: the list handed to the synthesizer holds exactly one result per selected role,
\* in selection order, whatever the backend did; agents_used follows the selection.
C3_OneResultPerSelectedRole ==
    /\ HandedOver =>
        /\ Len(agent_responses) = Len(agents_to_use)
        /\ \A i \in DOMAIN agents_to_use :
               agent_responses[i].agent_name = Agents[agents_to_use[i]].name
    /\ Synthesized =>
        /\ Len(result.agents_used) = Len(agents_to_use)
        /\ \A i \in DOMAIN agents_to_use :
               result.agents_used[i] = Agents[agents_to_use[i]].name

\* five roles were dispatched, some calls raised and some answered
C3_Witness ==
    /\ Synthesized
    /\ Len(agents_to_use) = 5
    /\ Len(result.agents_used) = 5
    /\ \E i, j \in DOMAIN calls :
           calls[i].outcome.kind = "raise" /\ calls[j].outcome.kind = "text"

\* C4: a raising backend call is not propagated: the specialist's result has a
\* non-empty text that carries the error and confidence exactly 0.3, the request does
\* not fail, and the roles selected after it are still invoked.
C4_BackendErrorContained ==
    /\ \A i \in DOMAIN calls :
           calls[i].outcome.kind = "raise" =>
               /\ i \in DOMAIN agent_responses
               /\ agent_responses[i].agent_name = Agents[calls[i].agent].name
               /\ TextLen(agent_responses[i].analysis) > 0
               /\ calls[i].outcome.error \in Range(agent_responses[i].analysis)
               /\ agent_responses[i].confidence * 10 = Conf(1000) * 3
    /\ calls # <<>> => http.status # 500
    /\ (HandedOver \/ Synthesized \/ Answered) =>
           \A i \in DOMAIN calls :
               calls[i].outcome.kind = "raise" =>
                   \A j \in (i + 1)..Len(agents_to_use) :
                       j \in DOMAIN calls /\ calls[j].agent = agents_to_use[j]

\* the first call raised and at least two more roles were invoked after it
C4_Witness ==
    /\ HandedOver
    /\ Len(calls) >= 3
    /\ calls[1].outcome.kind = "raise"
    /\ agent_responses[1].confidence * 10 = Conf(1000) * 3
    /\ Len(agent_responses) = Len(calls)

\* C5: with no backend configured no call is attempted, and every specialist result
\* is the fallback: a non-empty text and the fallback confidence 0.5, within [0,1].
C5_NoBackendFallback ==
    ~client_configured =>
        /\ calls = <<>>
        /\ \A i \in DOMAIN agent_responses :
               /\ TextLen(agent_responses[i].analysis) > 0
               /\ agent_responses[i].confidence * 2 = Conf(1000)
               /\ agent_responses[i].confidence \in 0..Conf(1000)

C5_Witness ==
    /\ ~client_configured
    /\ HandedOver
    /\ Len(agent_responses) >= 2
    /\ calls = <<>>

\* C6: when every backend call raised, a request with a non-empty query is answered
\* with status 200, aggregate confidence 0.3, and a non-empty primary analysis and
\* non-empty evidence texts, one text per selected role.
C6_ErroringBackendStillAnswers ==
    (Answered /\ client_configured /\ \A i \in DOMAIN calls : calls[i].outcome.kind = "raise") =>
        /\ http.status = 200
        /\ http.payload.confidence_score * 10 = Conf(1000) * 3
        /\ TextLen(http.payload.analysis) > 0
        /\ \A i \in DOMAIN http.payload.supporting_evidence :
               TextLen(http.payload.supporting_evidence[i]) > 0
        /\ 1 + Len(http.payload.supporting_evidence) = Len(agents_to_use)
        /\ Len(http.payload.agents_used) = Len(agents_to_use)

C6_Witness ==
    /\ Answered
    /\ client_configured
    /\ Len(calls) = 5
    /\ \A i \in DOMAIN calls : calls[i].outcome.kind = "raise"
    /\ http.status = 200

\* C7 as stated: the aggregate confidence is the arithmetic mean of the confidences
\* handed to the synthesizer, and it is 0.0 if and only if that list is empty.
C7_MeanAndZeroIffEmpty ==
    Synthesized =>
        /\ agent_responses # <<>> =>
               result.confidence_score * Len(agent_responses) = SumConfidence(agent_responses)
        /\ result.confidence_score = 0 <=> agent_responses = <<>>

\* C7 as amended: the aggregate confidence is the arithmetic mean of the confidences
\* handed to the synthesizer when the list is non-empty and 0.0 when it is empty; it is
\* 0.0 exactly when the list is empty or every confidence in it is 0.0.
C7_MeanAndZeroWhenEmptyOrAllZero ==
    Synthesized =>
        /\ agent_responses # <<>> =>
               result.confidence_score * Len(agent_responses) = SumConfidence(agent_responses)
        /\ agent_responses = <<>> => result.confidence_score = 0
        /\ result.confidence_score = 0 <=>
               \A i \in DOMAIN agent_responses : agent_responses[i].confidence = 0

\* two results of different confidence, one of them 0.0, have a mean above 0.0
C7_Witness ==
    /\ Synthesized
    /\ Len(agent_responses) = 2
    /\ agent_responses[1].confidence = 0
    /\ agent_responses[2].confidence = Conf(ConfidenceCap)
    /\ result.confidence_score * 2 = Conf(ConfidenceCap)

\* C8: for an empty list the synthesizer returns a result with the fixed 'no analysis
\* available' primary text, no agents used, no evidence and confidence 0.0.
C8_EmptyListDegradedResult ==
    (Synthesized /\ agent_responses = <<>>) =>
        /\ result # NoResult
        /\ result.primary_analysis =
               <<"No analysis available - please check system configuration.">>
        /\ result.agents_used = <<>>
        /\ result.supporting_evidence = <<>>
        /\ result.confidence_score = 0
        /\ result.query = query

C8_Witness ==
    /\ Synthesized
    /\ agent_responses = <<>>
    /\ result.agents_used = <<>>
    /\ TextLen(result.primary_analysis) > 0

\* C9: for a non-empty list the primary analysis is the text of the first result and
\* the evidence is the texts of the remaining results in order, one fewer than results.
C9_PrimaryFirstEvidenceRest ==
    (Synthesized /\ agent_responses # <<>>) =>
        /\ result.primary_analysis = agent_responses[1].analysis
        /\ Len(result.supporting_evidence) = Len(agent_responses) - 1
        /\ \A i \in 1..(Len(agent_responses) - 1) :
               result.supporting_evidence[i] = agent_responses[i + 1].analysis

\* five results whose first text differs from the second
C9_Witness ==
    /\ Synthesized
    /\ Len(agent_responses) = 5
    /\ Len(result.supporting_evidence) = 4
    /\ agent_responses[1].analysis # agent_responses[2].analysis
    /\ result.supporting_evidence[1] = agent_responses[2].analysis

\* C10: the footer is one constant: the footer of the result returned is the footer
\* of every result the synthesizer can return, the one for the empty list included.
C10_FooterIsOneConstant ==
    Synthesized =>
        \A responses \in SeqsUpTo(AnalyzeResponses(query), 1) :
            synthesize_results(query, responses).memorial_context = result.memorial_context

\* the endpoint answered a request that carried no query text
Rejected == pc = "done" /\ query = <<>>

\* C11: a request whose query text is empty or missing is answered with a client
\* error at once: no specialist is invoked and the record store is not queried.
C11_EmptyQueryIsClientError ==
    Rejected =>
        /\ http.status = ClientError.status
        /\ calls = <<>>
        /\ agent_responses = <<>>
        /\ db_context = <<>>
        /\ ~store_failed

\* C12: when the record store fails during context gathering the context is the
\* empty string, and the pipeline still dispatches every selected specialist and
\* returns a result.
C12_StoreFailureGivesEmptyContext ==
    store_failed =>
        /\ TextLen(db_context) = 0
        /\ Answered =>
              /\ Len(agent_responses) = Len(agents_to_use)
              /\ http.status = 200

\* the context was gathered from a store that answered
Gathered == pc = "dispatch" /\ ~store_failed

\* the number of personnel rows the context query matches
PersonnelMatchCount ==
    Cardinality({i \in DOMAIN personnel_table : PersonnelMatches(personnel_table[i], query)})

\* the number of aircraft rows the context query matches
AircraftMatchCount ==
    Cardinality({i \in DOMAIN aircraft_table : AircraftMatches(aircraft_table[i], query)})

\* where the piece p stands in the text t; 0 when it is absent
PieceIndex(t, p) ==
    IF \E i \in DOMAIN t : t[i] = p THEN CHOOSE i \in DOMAIN t : t[i] = p ELSE 0

PersonnelHeader == PieceIndex(db_context, "\nPersonnel Records:\n")

AircraftHeader == PieceIndex(db_context, "\nAircraft Records:\n")

\* the record lines of a section: the "- " pieces between its header and the end
\* of the text, or the next header
RecordLines(first, last) ==
    Cardinality({i \in DOMAIN db_context : first < i /\ i <= last /\ db_context[i] = "- "})

PersonnelRecordLines ==
    IF PersonnelHeader = 0 THEN 0
    ELSE RecordLines(PersonnelHeader,
                     IF AircraftHeader = 0 THEN Len(db_context) ELSE AircraftHeader)

AircraftRecordLines ==
    IF AircraftHeader = 0 THEN 0 ELSE RecordLines(AircraftHeader, Len(db_context))

AllRecordLines == RecordLines(0, Len(db_context))

\* C13: the context holds at most 3 records of each category (all the matching
\* ones when there are fewer), and a category without a matching record has no
\* labeled section in the context.
C13_AtMostThreePerCategoryNoEmptySection ==
    Gathered =>
        LET p == PersonnelMatchCount
            a == AircraftMatchCount
        IN  /\ PersonnelRecordLines = Min(ContextLimit, p)
            /\ AircraftRecordLines = Min(ContextLimit, a)
            /\ AllRecordLines = PersonnelRecordLines + AircraftRecordLines
            /\ PersonnelRecordLines <= 3
            /\ AircraftRecordLines <= 3
            /\ (p = 0) <=> (PersonnelHeader = 0)
            /\ (a = 0) <=> (AircraftHeader = 0)

\* more than 3 personnel rows match and no aircraft row does: three personnel
\* lines and no aircraft section
C13_Witness ==
    /\ Gathered
    /\ PersonnelMatchCount > 3
    /\ AircraftMatchCount = 0
    /\ PersonnelRecordLines = 3
    /\ AircraftHeader = 0

\* a search endpoint answered with a result list
Searched(site) == pc = "done" /\ search.site = site /\ search.status = 200

\* the text the search works with
FreeText == Sanitize(search.text)

\* field contains text as a substring, whatever the case of the letters
Contains(field, text) == IsSubstring(Lower(text), Lower(field))

\* the tiers of the personnel score, by equality and containment of the text
PersonnelTier(r, text) ==
    IF Lower(r.name) = Lower(text) \/ Lower(r.service_number) = Lower(text) THEN 10
    ELSE IF Contains(r.name, text) \/ Contains(r.service_number, text) THEN 8
    ELSE IF Contains(r.squadron, text) THEN 6
    ELSE IF Contains(r.rank, text) THEN 4
    ELSE IF Contains(r.role, text) THEN 3
    ELSE 1

\* C15: search_personnel gives every record the score of the first tier the text
\* matches (10 equal to name or service number, 8 contained in one of them, 6 in
\* the squadron, 4 in the rank, 3 in the role, else 1), and the score of a
\* returned record is the one of its own row, whatever the other rows are.
C15_ScoreIsFirstMatchingTier ==
    Searched("personnel") =>
        /\ \A i \in DOMAIN personnel_table :
              personnel_relevance_score(personnel_table[i], FreeText)
                  = PersonnelTier(personnel_table[i], FreeText)
        /\ \A k \in DOMAIN search.results :
              search.results[k].relevance_score
                  = PersonnelTier(personnel_table[search.results[k].id], FreeText)

\* some searchable field of the personnel row contains the text
AnyFieldContains(r, text) ==
    \/ Contains(r.name, text)
    \/ Contains(r.service_number, text)
    \/ Contains(r.squadron, text)
    \/ Contains(r.rank, text)
    \/ Contains(r.role, text)
    \/ Contains(r.biography, text)

\* the row passes the filters of the request
SatisfiesFilters(r, filters) ==
    /\ filters.squadron # <<>> => Contains(r.squadron, filters.squadron)
    /\ filters.rank # <<>> => Contains(r.rank, filters.rank)
    /\ filters.role # <<>> => Contains(r.role, filters.role)

\* C16: every record of the result has a searchable field that contains the free
\* text, case-insensitively (none would score 0), and every record with such a
\* field that passes the filters is in the result unless the limit cut it off.
C16_ResultIsTheContainingRecords ==
    Searched("personnel") =>
        /\ \A k \in DOMAIN search.results :
              AnyFieldContains(personnel_table[search.results[k].id], FreeText)
        /\ \A i \in DOMAIN personnel_table :
              ( /\ AnyFieldContains(personnel_table[i], FreeText)
                /\ SatisfiesFilters(personnel_table[i], search.filters)
                /\ Len(search.results) < DefaultLimit )
              => \E k \in DOMAIN search.results : search.results[k].id = i

\* the text holds one of the pattern characters of LIKE
HasPatternCharacter(text) == \E i \in DOMAIN text : text[i] \in {"%", "_"}

\* some searchable field of the aircraft row contains the text
AnyAircraftFieldContains(r, text) ==
    \/ Contains(r.serial_number, text)
    \/ Contains(r.aircraft_type, text)
    \/ Contains(r.squadron, text)
    \/ Contains(r.crew_details, text)
    \/ Contains(r.service_history, text)

\* C17: the pattern characters % and _ in the free text are matched as literal
\* characters: a text that holds them returns only records with a field that
\* literally contains the text.
C17_PatternCharactersAreLiteral ==
    /\ (Searched("personnel") /\ HasPatternCharacter(FreeText)) =>
          \A k \in DOMAIN search.results :
              AnyFieldContains(personnel_table[search.results[k].id], FreeText)
    /\ (Searched("aircraft") /\ HasPatternCharacter(FreeText)) =>
          \A k \in DOMAIN search.results :
              AnyAircraftFieldContains(aircraft_table[search.results[k].id], FreeText)

\* a search endpoint of one of the applications answered with a result list
Listed == pc = "done" /\ search.site # "none" /\ search.status = 200

\* the display field of a result: the serial number of an aircraft, else the name
Display(x) == IF search.site = "aircraft" THEN x.serial_number ELSE x.name

\* C18: every result list is ordered by relevance score descending and, among
\* records of equal score, by name (serial number for aircraft) ascending, where
\* the store orders the rows and where the endpoint sorts them again by score.
C18_OrderedByScoreThenName ==
    Listed =>
        \A k \in 1..(Len(search.results) - 1) :
            \/ search.results[k].relevance_score > search.results[k + 1].relevance_score
            \/ /\ search.results[k].relevance_score = search.results[k + 1].relevance_score
               /\ ~TextLess(Display(search.results[k + 1]), Display(search.results[k]))

\* a list of the re-sorting endpoint with two scores, whose rows of the higher
\* score are not the first ones by name, and two rows of one score in name order
C18_Witness ==
    /\ Listed
    /\ search.site = "v2"
    /\ \E k \in 1..(Len(search.results) - 2) :
          /\ search.results[k].relevance_score > search.results[k + 1].relevance_score
          /\ TextLess(search.results[k + 1].name, search.results[k].name)
          /\ search.results[k + 1].relevance_score = search.results[k + 2].relevance_score
          /\ TextLess(search.results[k + 1].name, search.results[k + 2].name)

\* the same rows inserted in the opposite order
Reverse(t) == [i \in DOMAIN t |-> t[Len(t) + 1 - i]]

\* the same rows with the first one inserted last
Rotate(t) == IF t = <<>> THEN t ELSE Tail(t) \o <<Head(t)>>

\* a result list without the rowids, which tell the order of insertion
Records(results) == [k \in DOMAIN results |-> [results[k] EXCEPT !.id = 0]]

Engine(site) == pc = "done" /\ search.site = site /\ search.status = 200

\* the filter keys search_personnel reads
PersonnelFilterKeys == {"squadron", "rank", "role"}

\* the filter keys search_aircraft reads
AircraftFilterKeys == {"aircraft_type", "squadron"}

\* the row has, in every field a present filter names, the filter's value
PassesFilters(r, filters, keys) ==
    \A key \in keys :
        FilterGet(filters, key) # <<>> => Contains(r[key], FilterGet(filters, key))

\* the score the same call gives the row when it carries no filters and no limit
\* cuts the list; 0 when the row is not in that list
UnfilteredScore(site, id) ==
    LET found == IF site = "engine_personnel"
                 THEN search_personnel(personnel_table, search.text, NoFilters,
                                       Len(personnel_table), [kind |-> "ok"])
                 ELSE search_aircraft(aircraft_table, search.text, NoFilters,
                                      Len(aircraft_table), [kind |-> "ok"])
        hits == {k \in DOMAIN found.results : found.results[k].id = id}
    IN  IF hits = {} THEN 0 ELSE found.results[CHOOSE k \in hits : TRUE].relevance_score

\* C21: filters are a hard conjunction on top of the text predicate: every record
\* returned satisfies every filter present, and a record has the same relevance
\* score in the call with the filters and in the call without them.
C21_FiltersNarrowAndKeepScores ==
    /\ Engine("engine_personnel") =>
          \A k \in DOMAIN search.results :
              /\ PassesFilters(personnel_table[search.results[k].id], search.filters,
                               PersonnelFilterKeys)
              /\ search.results[k].relevance_score
                     = UnfilteredScore("engine_personnel", search.results[k].id)
    /\ Engine("engine_aircraft") =>
          \A k \in DOMAIN search.results :
              /\ PassesFilters(aircraft_table[search.results[k].id], search.filters,
                               AircraftFilterKeys)
              /\ search.results[k].relevance_score
                     = UnfilteredScore("engine_aircraft", search.results[k].id)

\* a call with two filters returned some of the records the text matches and left
\* out a matching record that fails a filter
C21_Witness ==
    /\ Engine("engine_personnel")
    /\ FilterGet(search.filters, "rank") # <<>>
    /\ FilterGet(search.filters, "squadron") # <<>>
    /\ search.results # <<>>
    /\ search.limit = DefaultLimit
    /\ \E i \in DOMAIN personnel_table :
          /\ personnel_where(personnel_table[i], search.text, NoFilters)
          /\ ~PassesFilters(personnel_table[i], search.filters, PersonnelFilterKeys)

\* the filters object without one of its keys
Without(filters, key) == [k \in DOMAIN filters \ {key} |-> filters[k]]

\* the store answered the engine's call
EngineCalled(site) == pc = "done" /\ search.site = site /\ ~store_failed

\* C22: filter narrowing is monotonic: for the same text, limit and store, the
\* call with one more filter constraint never returns more records than the call
\* without that constraint.
C22_OneMoreFilterNeverMoreRecords ==
    /\ Engine("engine_personnel") =>
          \A key \in PersonnelFilterKeys :
              FilterGet(search.filters, key) # <<>> =>
                  Len(search.results)
                      <= Len(search_personnel(personnel_table, search.text,
                                              Without(search.filters, key), search.limit,
                                              [kind |-> "ok"]).results)
    /\ Engine("engine_aircraft") =>
          \A key \in AircraftFilterKeys :
              FilterGet(search.filters, key) # <<>> =>
                  Len(search.results)
                      <= Len(search_aircraft(aircraft_table, search.text,
                                             Without(search.filters, key), search.limit,
                                             [kind |-> "ok"]).results)
    /\ Engine("advanced") =>
          \A key \in DOMAIN search.filters :
              Len(search.results)
                  <= Len(build_advanced_search_query(adv_personnel_table, squadrons_table,
                                                     Without(search.filters, key)))

\* a call with two filters that returns fewer records than the same call without
\* one of them, in the engine and in the advanced search
C22_Witness ==
    \/ /\ Engine("engine_aircraft")
       /\ FilterGet(search.filters, "aircraft_type") # <<>>
       /\ FilterGet(search.filters, "squadron") # <<>>
       /\ search.results # <<>>
       /\ Len(search.results)
              < Len(search_aircraft(aircraft_table, search.text,
                                    Without(search.filters, "squadron"), search.limit,
                                    [kind |-> "ok"]).results)
    \/ /\ Engine("advanced")
       /\ FilterGet(search.filters, "squadron") # <<>>
       /\ FilterGet(search.filters, "base_location") # <<>>
       /\ search.results # <<>>
       /\ Len(search.results)
              < Len(build_advanced_search_query(adv_personnel_table, squadrons_table,
                                                Without(search.filters, "squadron")))

\* the filters object with the keys the search knows and holds a value for
Composed(filters, keys) ==
    [k \in {key \in DOMAIN filters \cap keys : filters[key] # <<>>} |-> filters[k]]

\* the keys build_advanced_search_query reads
AdvancedFilterKeys ==
    { "query", "date_from", "date_to", "service_from", "service_to", "aircraft_type",
      "squadron", "role", "rank", "base_location", "age_from", "age_to", "min_missions",
      "has_awards", "memorial_location" }

\* C23: a constraint is added for a known filter field only when the raw map holds
\* a non-empty value for it: keys that are absent or hold the empty text and keys
\* the search does not know change nothing and raise no error, so the answer is
\* the one of the call with just the known non-empty entries.
C23_OnlyKnownNonEmptyFiltersConstrain ==
    /\ EngineCalled("engine_personnel") =>
          /\ search.status = 200
          /\ search.results
                = search_personnel(personnel_table, search.text,
                                   Composed(search.filters, PersonnelFilterKeys),
                                   search.limit, [kind |-> "ok"]).results
    /\ EngineCalled("engine_aircraft") =>
          /\ search.status = 200
          /\ search.results
                = search_aircraft(aircraft_table, search.text,
                                  Composed(search.filters, AircraftFilterKeys),
                                  search.limit, [kind |-> "ok"]).results
    /\ EngineCalled("advanced") =>
          LET composed == advanced_personnel_search(
                              adv_personnel_table, squadrons_table,
                              Composed(search.filters, AdvancedFilterKeys),
                              [kind |-> "ok"])
          IN  /\ search.status = composed.status
              /\ search.results = composed.results

\* a call whose filters hold a key with the empty text, or a key no search knows,
\* beside a constraint that leaves some records out
C23_Witness ==
    /\ \/ EngineCalled("engine_personnel")
       \/ EngineCalled("advanced")
    /\ \E key \in DOMAIN search.filters :
          \/ key \in {"squadron", "role"} /\ search.filters[key] = <<>>
          \/ key = "decade"
    /\ FilterGet(search.filters, "rank") # <<>>
    /\ search.results # <<>>
    /\ search.results
           # (IF search.site = "advanced"
              THEN build_advanced_search_query(adv_personnel_table, squadrons_table, <<>>)
              ELSE search_personnel(personnel_table, search.text, NoFilters, search.limit,
                                    [kind |-> "ok"]).results)

\* the rows of the personnel table that pass the filters
Passing(filters) ==
    {i \in DOMAIN personnel_table :
        PassesFilters(personnel_table[i], filters, PersonnelFilterKeys)}

\* C24: search_personnel does not reject empty free text: it returns, without
\* error, the records that satisfy the filters, all of them up to the limit.
C24_EmptyTextBrowsesAllMatchingFilters ==
    (EngineCalled("engine_personnel") /\ search.text = <<>>) =>
        /\ search.status = 200
        /\ search.error = <<>>
        /\ {search.results[k].id : k \in DOMAIN search.results} \subseteq Passing(search.filters)
        /\ Cardinality({search.results[k].id : k \in DOMAIN search.results})
               = Min(search.limit, Cardinality(Passing(search.filters)))
        /\ Len(search.results) = Min(search.limit, Cardinality(Passing(search.filters)))

\* empty text with a filter: the records of the result are all the records that
\* pass the filter, which are not all the records of the table
C24_Witness ==
    /\ EngineCalled("engine_personnel")
    /\ search.text = <<>>
    /\ FilterGet(search.filters, "rank") # <<>>
    /\ Len(search.results) = Cardinality(Passing(search.filters))
    /\ Len(search.results) \in 2..(Len(personnel_table) - 1)

\* C25: when the free text equals the identity value of a record (service number,
\* or serial number for aircraft), whatever the case of the letters, and the
\* record satisfies the filters, that record is the first element of the result
\* and carries score 10, for every store and every limit of at least 1.
C25_ExactIdentityIsFirstWithScoreTen ==
    /\ Engine("engine_personnel") =>
          \A i \in DOMAIN personnel_table :
              ( /\ Lower(personnel_table[i].service_number) = Lower(search.text)
                /\ PassesFilters(personnel_table[i], search.filters, PersonnelFilterKeys) )
              => /\ search.results # <<>>
                 /\ search.results[1].id = i
                 /\ search.results[1].relevance_score = 10
    /\ Engine("engine_aircraft") =>
          \A i \in DOMAIN aircraft_table :
              ( /\ Lower(aircraft_table[i].serial_number) = Lower(search.text)
                /\ PassesFilters(aircraft_table[i], search.filters, AircraftFilterKeys) )
              => /\ search.results # <<>>
                 /\ search.results[1].id = i
                 /\ search.results[1].relevance_score = 10

\* a search endpoint of src/app.py took the request and called the engine
Accepted(site) == pc = "done" /\ search.site = site /\ search.status # 400

\* no row of the table passes the WHERE clause of the search
NothingMatches(site) ==
    IF site = "personnel"
    THEN \A i \in DOMAIN personnel_table :
            ~personnel_where(personnel_table[i], FreeText, search.filters)
    ELSE \A i \in DOMAIN aircraft_table :
            ~aircraft_where(aircraft_table[i], FreeText, search.filters)

\* C26: a search call tells a store failure from no match: when the store cannot
\* be opened or the query fails the endpoint answers with a server-side error,
\* and when the store answers and no record matches it answers with success, an
\* empty list and count 0.
C26_StoreFailureIsErrorNoMatchIsEmptySuccess ==
    \A site \in {"personnel", "aircraft"} :
        Accepted(site) =>
            /\ store_failed => search.status = 500 /\ search.error # <<>>
            /\ ~store_failed => search.status = 200
            /\ (~store_failed /\ NothingMatches(site)) =>
                  /\ search.results = <<>>
                  /\ search.count = 0
                  /\ search.error = <<>>

\* the store answered a text that occurs nowhere in it: success and an empty list
C26_Witness ==
    /\ Accepted("personnel")
    /\ ~store_failed
    /\ search.text = <<"x", "y", "z">>
    /\ search.status = 200
    /\ search.results = <<>>
    /\ search.count = 0

\* C27: after any number of initializations every identity value (service number
\* of a personnel record, serial number of an aircraft record) is in the store
\* once: running the initialization again gives no second record with an identity
\* the store already has.
C27_IdentityUniqueAfterInitializations ==
    /\ \A i, j \in DOMAIN personnel_table :
          personnel_table[i].service_number = personnel_table[j].service_number => i = j
    /\ \A i, j \in DOMAIN aircraft_table :
          aircraft_table[i].serial_number = aircraft_table[j].serial_number => i = j

AdmittedInWindow(c, t) ==
    Cardinality({i \in DOMAIN admitted[c] :
                    /\ t <= admitted[c][i]
                    /\ admitted[c][i] < t + RATE_LIMIT_WINDOW})

\* a window holding the most admitted requests starts at the time of one of them
WindowLimitHolds(c) ==
    \A t \in Range(admitted[c]) : AdmittedInWindow(c, t) <= RATE_LIMIT_REQUESTS

\* C29: for every client and every sequence of requests handled one at a time, at
\* most 100 requests are admitted within any 60-second window; a request answered
\* 429 is not added to the history of its client, and the histories of the other
\* clients are as they were before the request.
C29_SequentialLimit ==
    /\ \A c \in Clients : WindowLimitHolds(c)
    /\ rate.client_ip # "" =>
        /\ rate.status = 429 =>
            request_counts[rate.client_ip] =
                CleanOldRequests(rate.before[rate.client_ip], rate.now)
        /\ \A c \in Clients \ {rate.client_ip} : request_counts[c] = rate.before[c]

\* a request of a client with 100 admitted requests in the running window was
\* answered 429 while the other client has a history of its own
C29_Witness ==
    /\ rate.status = 429
    /\ Len(request_counts[rate.client_ip]) = RATE_LIMIT_REQUESTS
    /\ \E c \in Clients \ {rate.client_ip} : request_counts[c] # <<>>
    /\ \E t \in Range(admitted[rate.client_ip]) :
        AdmittedInWindow(rate.client_ip, t) = RATE_LIMIT_REQUESTS

\* the number of times t is in the list s
Occurrences(s, t) == Cardinality({i \in DOMAIN s : s[i] = t})

\* every admitted request that is not older than the window is in the history
HistoryKept(c) ==
    \A t \in Range(admitted[c]) :
        now - t < RATE_LIMIT_WINDOW =>
            Occurrences(request_counts[c], t) >= Occurrences(admitted[c], t)

\* C30: when requests of one client are handled concurrently and the prune,
\* limit-check and append steps of rate_limit interleave, at most 100 requests are
\* admitted within any 60-second window and the time of every admitted request
\* stays in the history of the client, once no request is inside rate_limit.
C30_ConcurrentLimitAndHistoryKept ==
    (\A t \in Threads : threads[t].at = "out") =>
        /\ WindowLimitHolds(ConcClient)
        /\ HistoryKept(ConcClient)
====
